---- MODULE Spec2Model ----
(***************************************************************************)
(* A model of zim, a modal terminal text editor: the line buffer           *)
(* (buffer.rs), the cursor and its viewport (cursor.rs), the edit session  *)
(* (editor.rs), the mode manager (mode.rs), the persistence layer          *)
(* (file_io.rs) and the input loop that drives them (main.rs).             *)
(*                                                                         *)
(* Text is modelled as sequences of characters.  A character is one of the *)
(* tokens of Chars; "W" stands for a character whose UTF-8 encoding takes  *)
(* two bytes (such as U+00E9), "LF" for '\n' and "CR" for '\r'.  Rust's    *)
(* String is indexed by byte offset, so the row operations of buffer.rs    *)
(* are modelled on byte offsets, and they abort (panic) when an offset is  *)
(* not on a character boundary.                                            *)
(***************************************************************************)
EXTENDS Integers, Sequences, FiniteSets, TLC

VARIABLES
    cursor,          \* Cursor {x, y, row_offset}            (cursor.rs:28)
    editor,          \* Editor {buffer, filename, dirty, ...} (editor.rs:66)
    mode_manager,    \* ModeManager {current, visual_start}  (mode.rs:11)
    command_buffer,  \* main.rs:40
    pending_key,     \* main.rs:41
    status_message,  \* main.rs:43
    loop,            \* position of the input loop: running, exited, panicked
    disk,            \* the file system: file name -> content
    editor_rows,     \* main.rs:60
    last,            \* what the last key event did (observation only)
    cleared,         \* the last key event turned dirty from true to false (observation only)
    probe            \* inputs and results of an operation applied in isolation

vars == <<cursor, editor, mode_manager, command_buffer, pending_key,
          status_message, loop, disk, editor_rows, last, cleared, probe>>

(***************************************************************************)
(* Bounds of the model.                                                    *)
(***************************************************************************)
MaxRows == 2          \* rows a buffer may grow to in the input loop
MaxLineLen == 1       \* bytes a row may grow to in the input loop
MaxEditorRows == 1    \* heights of the editing area tried in the input loop
MaxScrollRows == 2    \* heights of the editing area tried on the cursor in isolation
MaxCoord == 4         \* cursor coordinates tried on the cursor in isolation
MaxBufLen == 5        \* buffer lengths tried on the cursor in isolation
MaxContentLen == 4    \* characters of a file's content tried on FileIO
MaxProbeRows == 2     \* rows of the buffers tried on Editor operations
MaxProbeLen == 2      \* characters of the rows tried on Editor operations

\* Option<T>: None is written None where T is a character or a file name,
\* and NoValue / Some(v) where T is a string or a Position.
None == "None"

NoValue == <<>>

Some(v) == <<v>>

Unwrap(o) == o[1]

(***************************************************************************)
(* Arithmetic helpers.                                                     *)
(***************************************************************************)
SatSub(a, b) == IF a > b THEN a - b ELSE 0

Min(a, b) == IF a < b THEN a ELSE b

\* `n as u16` for a usize n: the value modulo 2^16.
U16Range == 65536

AsU16(n) == n % U16Range

(***************************************************************************)
(* cursor.rs: Cursor                                                       *)
(***************************************************************************)
CursorNew == [x |-> 1, y |-> 1, row_offset |-> 0]

file_row(c) == c.row_offset + c.y - 1

col_index(c) == c.x - 1

position(c) == [row |-> file_row(c), col |-> col_index(c)]

move_up(c) ==
    IF file_row(c) > 0
    THEN IF c.y > 1
         THEN [c EXCEPT !.y = c.y - 1]
         ELSE [c EXCEPT !.row_offset = c.row_offset - 1]
    ELSE c

\* Variant: move_down compares with the row count, not with the last row.
move_down_past_end(c, max_rows, buffer_len) ==
    IF buffer_len = 0 THEN c
    ELSE IF file_row(c) < AsU16(buffer_len)
         THEN IF c.y < max_rows
              THEN [c EXCEPT !.y = c.y + 1]
              ELSE [c EXCEPT !.row_offset = c.row_offset + 1]
         ELSE c

move_down(c, max_rows, buffer_len) ==
    IF buffer_len = 0 THEN c
    ELSE LET last_row == SatSub(AsU16(buffer_len), 1) IN
         IF file_row(c) < last_row
         THEN IF c.y < max_rows
              THEN [c EXCEPT !.y = c.y + 1]
              ELSE [c EXCEPT !.row_offset = c.row_offset + 1]
         ELSE c

move_left(c) == IF c.x > 1 THEN [c EXCEPT !.x = c.x - 1] ELSE c

move_right(c, line_len) ==
    IF line_len = 0 THEN c
    ELSE IF c.x < AsU16(line_len) THEN [c EXCEPT !.x = c.x + 1] ELSE c

move_to_line_start(c) == [c EXCEPT !.x = 1]

move_to_line_end(c, line_len) ==
    IF line_len = 0 THEN [c EXCEPT !.x = 1] ELSE [c EXCEPT !.x = line_len]

move_to_top(c) == [c EXCEPT !.y = 1, !.row_offset = 0]

move_to_bottom(c, buffer_len, rows) ==
    IF buffer_len = 0 THEN [c EXCEPT !.y = 1, !.row_offset = 0]
    ELSE LET last_line == AsU16(SatSub(buffer_len, 1)) IN
         IF last_line < rows
         THEN [c EXCEPT !.y = last_line + 1, !.row_offset = 0]
         ELSE LET off == SatSub(last_line, rows - 1) IN
              [c EXCEPT !.row_offset = off, !.y = last_line - off + 1]

\* Variant: the column is not reset on an empty line.
adjust_cursor_x_keeps_empty(c, line_len) ==
    LET max_x == AsU16(line_len) IN
    IF line_len # 0 /\ c.x > max_x THEN [c EXCEPT !.x = max_x] ELSE c

adjust_cursor_x(c, line_len) ==
    IF line_len = 0 THEN [c EXCEPT !.x = 1]
    ELSE LET max_x == AsU16(line_len) IN
         IF c.x > max_x THEN [c EXCEPT !.x = max_x] ELSE c

ensure_within_bounds(c, buffer_len, line_len, rows) ==
    IF buffer_len = 0 THEN [c EXCEPT !.y = 1, !.x = 1, !.row_offset = 0]
    ELSE LET c1 == IF file_row(c) >= buffer_len
                   THEN move_to_bottom(c, buffer_len, rows)
                   ELSE c
         IN adjust_cursor_x(c1, line_len)

\* A scroll that forgets that y is 1-indexed when it recomputes it.
scroll_zero_based(c, rows, buffer_len) ==
    IF buffer_len = 0 THEN [c EXCEPT !.y = 1, !.row_offset = 0]
    ELSE LET fr == file_row(c)
             last_row == AsU16(SatSub(buffer_len, 1))
         IN  IF fr > last_row
             THEN IF last_row < rows
                  THEN [c EXCEPT !.y = last_row + 1, !.row_offset = 0]
                  ELSE LET off == SatSub(last_row, rows - 1) IN
                       [c EXCEPT !.row_offset = off, !.y = last_row - off + 1]
             ELSE LET off1 == IF fr < c.row_offset THEN fr ELSE c.row_offset
                      off2 == IF fr >= off1 + rows
                              THEN SatSub(fr, rows - 1)
                              ELSE off1
                  IN  [c EXCEPT !.row_offset = off2, !.y = fr - off2]

\* A scroll that, when the cursor is below the viewport, moves the viewport
\* down by one row only.
scroll_one_step(c, rows, buffer_len) ==
    IF buffer_len = 0 THEN [c EXCEPT !.y = 1, !.row_offset = 0]
    ELSE LET fr == file_row(c)
             last_row == AsU16(SatSub(buffer_len, 1))
         IN  IF fr > last_row
             THEN IF last_row < rows
                  THEN [c EXCEPT !.y = last_row + 1, !.row_offset = 0]
                  ELSE LET off == SatSub(last_row, rows - 1) IN
                       [c EXCEPT !.row_offset = off, !.y = last_row - off + 1]
             ELSE IF fr >= c.row_offset + rows
                  THEN [c EXCEPT !.row_offset = c.row_offset + 1, !.y = c.y - 1]
                  ELSE c

scroll(c, rows, buffer_len) ==
    IF buffer_len = 0 THEN [c EXCEPT !.y = 1, !.row_offset = 0]
    ELSE LET fr == file_row(c)
             last_row == AsU16(SatSub(buffer_len, 1))
         IN  IF fr > last_row
             THEN IF last_row < rows
                  THEN [c EXCEPT !.y = last_row + 1, !.row_offset = 0]
                  ELSE LET off == SatSub(last_row, rows - 1) IN
                       [c EXCEPT !.row_offset = off, !.y = last_row - off + 1]
             ELSE LET off1 == IF fr < c.row_offset THEN fr ELSE c.row_offset
                      off2 == IF fr >= off1 + rows
                              THEN SatSub(fr, rows - 1)
                              ELSE off1
                  IN  [c EXCEPT !.row_offset = off2, !.y = fr - off2 + 1]

(***************************************************************************)
(* Text.  String::len and the String editing methods count bytes.          *)
(***************************************************************************)
WideChars == {"W"}

ByteLen(ch) == IF ch \in WideChars THEN 2 ELSE 1

RECURSIVE StrLen(_)
StrLen(s) == IF s = <<>> THEN 0 ELSE ByteLen(Head(s)) + StrLen(Tail(s))

\* str::is_char_boundary: at is the byte offset of the start of a character
\* or the end of the string.
IsCharBoundary(s, at) == \E k \in 0..Len(s) : StrLen(SubSeq(s, 1, k)) = at

\* The number of characters that lie before the byte offset at.
CharsBefore(s, at) == CHOOSE k \in 0..Len(s) : StrLen(SubSeq(s, 1, k)) = at

InsertAt(seq, i, e) == SubSeq(seq, 1, i) \o <<e>> \o SubSeq(seq, i + 1, Len(seq))

RemoveAt(seq, i) == SubSeq(seq, 1, i) \o SubSeq(seq, i + 2, Len(seq))

\* Iterator::skip(n) and Iterator::take(n) over the characters of a string.
Skip(s, n) == SubSeq(s, n + 1, Len(s))

Take(s, n) == SubSeq(s, 1, Min(n, Len(s)))

(***************************************************************************)
(* buffer.rs: Row.  A row is its `chars` string (`render` is a copy of it).*)
(* Each operation yields the new row, the returned value and whether the   *)
(* String method it calls panics.                                          *)
(***************************************************************************)
RowLen(r) == StrLen(r)

Row_insert_str(r, at, s) ==
    IF at <= StrLen(r)
    THEN IF IsCharBoundary(r, at)
         THEN [row |-> SubSeq(r, 1, CharsBefore(r, at)) \o s
                       \o SubSeq(r, CharsBefore(r, at) + 1, Len(r)),
               panic |-> FALSE]
         ELSE [row |-> r, panic |-> TRUE]
    ELSE [row |-> r, panic |-> FALSE]

Row_insert_char(r, at, ch) == Row_insert_str(r, at, <<ch>>)

Row_delete_char(r, at) ==
    IF at < StrLen(r)
    THEN IF IsCharBoundary(r, at)
         THEN [row |-> RemoveAt(r, CharsBefore(r, at)),
               ret |-> r[CharsBefore(r, at) + 1], panic |-> FALSE]
         ELSE [row |-> r, ret |-> None, panic |-> TRUE]
    ELSE [row |-> r, ret |-> None, panic |-> FALSE]

Row_split_off(r, at) ==
    IF at <= StrLen(r)
    THEN IF IsCharBoundary(r, at)
         THEN [row |-> SubSeq(r, 1, CharsBefore(r, at)),
               ret |-> SubSeq(r, CharsBefore(r, at) + 1, Len(r)),
               panic |-> FALSE]
         ELSE [row |-> r, ret |-> <<>>, panic |-> TRUE]
    ELSE [row |-> r, ret |-> <<>>, panic |-> FALSE]

Row_append(r, s) == r \o s

(***************************************************************************)
(* buffer.rs: Buffer.  A buffer is the sequence of its rows; row index i   *)
(* of the code is element i + 1 of the sequence.                           *)
(***************************************************************************)
BufferNew == <<>>

Buffer_insert_row(rows, at, text) ==
    IF at <= Len(rows) THEN InsertAt(rows, at, text) ELSE rows

Buffer_delete_row(rows, at) ==
    IF at < Len(rows) THEN RemoveAt(rows, at) ELSE rows

Buffer_insert_char(rows, row, col, ch) ==
    LET rows1 == IF row >= Len(rows)
                 THEN Buffer_insert_row(rows, Len(rows), <<>>)
                 ELSE rows
    IN  IF row < Len(rows1)
        THEN LET r == Row_insert_char(rows1[row + 1], col, ch) IN
             [rows |-> [rows1 EXCEPT ![row + 1] = r.row], panic |-> r.panic]
        ELSE [rows |-> rows1, panic |-> FALSE]

Buffer_delete_char(rows, row, col) ==
    IF row < Len(rows)
    THEN LET r == Row_delete_char(rows[row + 1], col) IN
         [rows |-> [rows EXCEPT ![row + 1] = r.row], ret |-> r.ret,
          panic |-> r.panic]
    ELSE [rows |-> rows, ret |-> None, panic |-> FALSE]

Buffer_insert_newline(rows, row, col) ==
    IF row >= Len(rows)
    THEN [rows |-> Buffer_insert_row(rows, Len(rows), <<>>), panic |-> FALSE]
    ELSE LET r == Row_split_off(rows[row + 1], col) IN
         [rows |-> IF r.panic THEN rows
                   ELSE Buffer_insert_row([rows EXCEPT ![row + 1] = r.row],
                                          row + 1, r.ret),
          panic |-> r.panic]

Buffer_join_rows(rows, row) ==
    IF row > 0 /\ row < Len(rows)
    THEN LET removed == RemoveAt(rows, row) IN
         [removed EXCEPT ![row] = Row_append(removed[row], rows[row + 1])]
    ELSE rows

Buffer_delete_row_with_content(rows, at) ==
    IF at < Len(rows)
    THEN [rows |-> RemoveAt(rows, at), ret |-> Some(rows[at + 1])]
    ELSE [rows |-> rows, ret |-> NoValue]

Buffer_get_row_content(rows, at) ==
    IF at < Len(rows) THEN Some(rows[at + 1]) ELSE NoValue

(***************************************************************************)
(* file_io.rs: FileIO.  A file's content is a sequence of characters in    *)
(* which "LF" is '\n' and "CR" is '\r'.                                    *)
(***************************************************************************)
\* str::split_inclusive('\n'): the pieces of s, each ending with its "LF"
\* (the last piece has none when s does not end with one).
RECURSIVE SplitInclusive(_)
SplitInclusive(s) ==
    IF s = <<>> THEN <<>>
    ELSE IF \E i \in 1..Len(s) : s[i] = "LF"
         THEN LET i == CHOOSE j \in 1..Len(s) :
                           s[j] = "LF" /\ \A k \in 1..(j - 1) : s[k] # "LF"
              IN  <<SubSeq(s, 1, i)>> \o SplitInclusive(SubSeq(s, i + 1, Len(s)))
         ELSE <<s>>

\* What str::lines does to one piece: strip a final '\n' and, only if
\* there was one, a '\r' before it.
LinesMap(piece) ==
    IF piece # <<>> /\ piece[Len(piece)] = "LF"
    THEN LET line == SubSeq(piece, 1, Len(piece) - 1) IN
         IF line # <<>> /\ line[Len(line)] = "CR"
         THEN SubSeq(line, 1, Len(line) - 1)
         ELSE line
    ELSE piece

\* str::lines
StrLines(content) ==
    LET pieces == SplitInclusive(content) IN
    [i \in 1..Len(pieces) |-> LinesMap(pieces[i])]

EndsWithNewline(content) == content # <<>> /\ content[Len(content)] = "LF"

RECURSIVE InsertLines(_, _, _)
InsertLines(rows, lines, index) ==
    IF index >= Len(lines) THEN rows
    ELSE InsertLines(Buffer_insert_row(rows, index, lines[index + 1]),
                     lines, index + 1)

\* FileIO::open, given the content read from the path.
FileIO_open(content) ==
    [buffer |-> IF content # <<>>
                THEN InsertLines(BufferNew, StrLines(content), 0)
                ELSE BufferNew,
     ends_with_newline |-> EndsWithNewline(content)]

RECURSIVE WriteRows(_, _, _)
WriteRows(rows, i, ends_with_newline) ==
    IF i >= Len(rows) THEN <<>>
    ELSE IF i < Len(rows) - 1
         THEN rows[i + 1] \o <<"LF">> \o WriteRows(rows, i + 1, ends_with_newline)
         ELSE rows[i + 1] \o (IF ends_with_newline THEN <<"LF">> ELSE <<>>)

\* FileIO::save: the bytes written to the path when no write fails.
FileIO_save(buffer, ends_with_newline) ==
    IF buffer = <<>>
    THEN IF ends_with_newline THEN <<"LF">> ELSE <<>>
    ELSE WriteRows(buffer, 0, ends_with_newline)

(***************************************************************************)
(* editor.rs: YankManager and Editor.  The system clipboard is written     *)
(* and never read by the editor, so it is left out of the editor record;   *)
(* sync_to_clipboard takes it as a separate value.                         *)
(* Each Editor operation yields the editor after it (e), its return value  *)
(* (ret) and whether it panics.                                            *)
(***************************************************************************)
YankManagerNew == [buffer |-> <<>>, yank_type |-> "InLine"]

yank_inline(ym, text) == [buffer |-> <<text>>, yank_type |-> "InLine"]

yank_line(ym, text) == [buffer |-> <<text>>, yank_type |-> "NewLine"]

is_newline_yank(ym) == ym.yank_type = "NewLine"

EditorNew ==
    [buffer |-> BufferNew, filename |-> None, dirty |-> FALSE,
     ends_with_newline |-> TRUE, yank_manager |-> YankManagerNew]

Editor_from_buffer(buffer, filename) ==
    [buffer |-> buffer, filename |-> filename, dirty |-> FALSE,
     ends_with_newline |-> TRUE, yank_manager |-> YankManagerNew]

\* The Editor's `clipboard` field is kept apart from the editor record, since
\* sync_to_clipboard is the only code that touches it.  A clipboard is its
\* handle ("absent": Clipboard::new() failed and the field is None; "fails"
\* and "succeeds": the field is Some and set_text returns Err or Ok) and the
\* text the system holds.
\* Variant: a failed set_text empties the register.
sync_to_clipboard_drops_register(e, clipboard) ==
    IF clipboard.handle # "absent" /\ e.yank_manager.buffer # <<>>
    THEN LET c == e.yank_manager.buffer
             join[i \in 0..Len(c)] ==
                 IF i = 0 THEN <<>>
                 ELSE IF i = 1 THEN c[1]
                 ELSE join[i - 1] \o <<"LF">> \o c[i]
         IN  IF clipboard.handle = "succeeds"
             THEN [e |-> e,
                   clipboard |-> [clipboard EXCEPT !.text = Some(join[Len(c)])]]
             ELSE [e |-> [e EXCEPT !.yank_manager = YankManagerNew],
                   clipboard |-> clipboard]
    ELSE [e |-> e, clipboard |-> clipboard]

\* Editor::sync_to_clipboard: with a clipboard and a non-empty register, the
\* register's lines joined by "\n" are handed to set_text, whose result is
\* discarded.
sync_to_clipboard(e, clipboard) ==
    IF clipboard.handle # "absent" /\ e.yank_manager.buffer # <<>>
    THEN LET c == e.yank_manager.buffer
             join[i \in 0..Len(c)] ==
                 IF i = 0 THEN <<>>
                 ELSE IF i = 1 THEN c[1]
                 ELSE join[i - 1] \o <<"LF">> \o c[i]
         IN  IF clipboard.handle = "succeeds"
             THEN [e |-> e,
                   clipboard |-> [clipboard EXCEPT !.text = Some(join[Len(c)])]]
             ELSE [e |-> e, clipboard |-> clipboard]
    ELSE [e |-> e, clipboard |-> clipboard]

\* The file system maps a file name to a file: its content, or no file.
File(content) == [exists |-> TRUE, content |-> content]

NoFile == [exists |-> FALSE, content |-> <<>>]

\* std::fs::read_to_string: the content of the file, or an error when the
\* file does not exist or the read fails (io_ok is FALSE).
ReadToString(fs, name, io_ok) ==
    IF io_ok /\ fs[name].exists
    THEN [ok |-> TRUE, content |-> fs[name].content]
    ELSE [ok |-> FALSE, content |-> <<>>]

\* Variant: a successful open also empties the yank register.
Editor_open_file_clears_register(e, name, fs, io_ok) ==
    LET rd == ReadToString(fs, name, io_ok)
        opened == FileIO_open(rd.content)
    IN  IF rd.ok
        THEN [e |-> [e EXCEPT !.buffer = opened.buffer,
                              !.filename = name,
                              !.dirty = FALSE,
                              !.ends_with_newline = opened.ends_with_newline,
                              !.yank_manager = YankManagerNew],
              ok |-> TRUE]
        ELSE [e |-> e, ok |-> FALSE]

Editor_open_file(e, name, fs, io_ok) ==
    LET rd == ReadToString(fs, name, io_ok)
        opened == FileIO_open(rd.content)
    IN  IF rd.ok
        THEN [e |-> [e EXCEPT !.buffer = opened.buffer,
                              !.filename = name,
                              !.dirty = FALSE,
                              !.ends_with_newline = opened.ends_with_newline],
              ok |-> TRUE]
        ELSE [e |-> e, ok |-> FALSE]

\* Variant: the buffer is dropped before the file is read, so a failed read
\* leaves an empty buffer.
Editor_reload_drops_buffer(e, fs, io_ok) ==
    IF e.filename # None
    THEN LET rd == ReadToString(fs, e.filename, io_ok)
             opened == FileIO_open(rd.content)
         IN  IF rd.ok
             THEN [e |-> [e EXCEPT !.buffer = opened.buffer,
                                   !.dirty = FALSE,
                                   !.ends_with_newline = opened.ends_with_newline],
                   ok |-> TRUE]
             ELSE [e |-> [e EXCEPT !.buffer = <<>>], ok |-> FALSE]
    ELSE [e |-> e, ok |-> FALSE]

Editor_reload(e, fs, io_ok) ==
    IF e.filename # None
    THEN LET rd == ReadToString(fs, e.filename, io_ok)
             opened == FileIO_open(rd.content)
         IN  IF rd.ok
             THEN [e |-> [e EXCEPT !.buffer = opened.buffer,
                                   !.dirty = FALSE,
                                   !.ends_with_newline = opened.ends_with_newline],
                   ok |-> TRUE]
             ELSE [e |-> e, ok |-> FALSE]
    ELSE [e |-> e, ok |-> FALSE]

\* The outcomes of FileIO::save on the file system: every write succeeds,
\* File::create fails (the file is untouched), or a write fails after
\* File::create has truncated the file.
SaveOutcomes == {"ok", "create_err", "write_err"}

\* A save that clears the dirty flag whether or not the write succeeded.
Editor_save_always_clean(e, fs, outcome) ==
    IF e.filename # None
    THEN CASE outcome = "ok" ->
                  [e |-> [e EXCEPT !.dirty = FALSE], ok |-> TRUE,
                   fs |-> [fs EXCEPT ![e.filename] =
                              File(FileIO_save(e.buffer, e.ends_with_newline))]]
           [] outcome = "create_err" ->
                  [e |-> [e EXCEPT !.dirty = FALSE], ok |-> FALSE, fs |-> fs]
           [] OTHER ->
                  [e |-> [e EXCEPT !.dirty = FALSE], ok |-> FALSE,
                   fs |-> [fs EXCEPT ![e.filename] = File(<<>>)]]
    ELSE [e |-> e, ok |-> FALSE, fs |-> fs]

Editor_save(e, fs, outcome) ==
    IF e.filename # None
    THEN CASE outcome = "ok" ->
                  [e |-> [e EXCEPT !.dirty = FALSE], ok |-> TRUE,
                   fs |-> [fs EXCEPT ![e.filename] =
                              File(FileIO_save(e.buffer, e.ends_with_newline))]]
           [] outcome = "create_err" ->
                  [e |-> e, ok |-> FALSE, fs |-> fs]
           [] OTHER ->
                  [e |-> e, ok |-> FALSE,
                   fs |-> [fs EXCEPT ![e.filename] = File(<<>>)]]
    ELSE [e |-> e, ok |-> FALSE, fs |-> fs]

buffer_info(e, row) ==
    LET buffer_len == Len(e.buffer) IN
    [buffer_len |-> buffer_len,
     line_len |-> IF buffer_len > 0
                  THEN RowLen(e.buffer[Min(row, buffer_len - 1) + 1])
                  ELSE 0]

current_line_len(e, row) ==
    IF row < Len(e.buffer) THEN RowLen(e.buffer[row + 1]) ELSE 0

Editor_insert_char(e, pos, ch) ==
    LET b == Buffer_insert_char(e.buffer, pos.row, pos.col, ch) IN
    [e |-> [e EXCEPT !.buffer = b.rows, !.dirty = TRUE], panic |-> b.panic]

Editor_delete_char(e, pos) ==
    LET b == Buffer_delete_char(e.buffer, pos.row, pos.col) IN
    [e |-> [e EXCEPT !.buffer = b.rows, !.dirty = TRUE], panic |-> b.panic]

Editor_insert_newline(e, pos) ==
    LET b == Buffer_insert_newline(e.buffer, pos.row, pos.col) IN
    [e |-> [e EXCEPT !.buffer = b.rows, !.dirty = TRUE], panic |-> b.panic]

Editor_join_rows(e, row) ==
    [e EXCEPT !.buffer = Buffer_join_rows(e.buffer, row), !.dirty = TRUE]

Editor_delete_char_at_cursor(e, pos) ==
    IF pos.row < Len(e.buffer) /\ pos.col < RowLen(e.buffer[pos.row + 1])
    THEN LET b == Buffer_delete_char(e.buffer, pos.row, pos.col) IN
         [e |-> [e EXCEPT !.buffer = b.rows,
                          !.yank_manager =
                              IF b.ret # None
                              THEN yank_inline(e.yank_manager, <<b.ret>>)
                              ELSE e.yank_manager,
                          !.dirty = TRUE],
          ret |-> TRUE, panic |-> b.panic]
    ELSE [e |-> e, ret |-> FALSE, panic |-> FALSE]

\* Variant: the removed line is not put into the register.
Editor_delete_line_no_yank(e, row) ==
    LET b == Buffer_delete_row_with_content(e.buffer, row) IN
    IF b.ret # NoValue
    THEN [e |-> [e EXCEPT !.buffer = b.rows, !.dirty = TRUE], ret |-> TRUE]
    ELSE [e |-> e, ret |-> FALSE]

Editor_delete_line(e, row) ==
    LET b == Buffer_delete_row_with_content(e.buffer, row) IN
    IF b.ret # NoValue
    THEN [e |-> [e EXCEPT !.buffer = b.rows,
                          !.yank_manager = yank_line(e.yank_manager, Unwrap(b.ret)),
                          !.dirty = TRUE],
          ret |-> TRUE]
    ELSE [e |-> e, ret |-> FALSE]

\* Variant: the yank marks the buffer as modified.
Editor_yank_line_sets_dirty(e, row) ==
    LET content == Buffer_get_row_content(e.buffer, row) IN
    IF content # NoValue
    THEN [e |-> [e EXCEPT !.yank_manager =
                              yank_line(e.yank_manager, Unwrap(content)),
                          !.dirty = TRUE],
          ret |-> TRUE]
    ELSE [e |-> e, ret |-> FALSE]

Editor_yank_line(e, row) ==
    LET content == Buffer_get_row_content(e.buffer, row) IN
    IF content # NoValue
    THEN [e |-> [e EXCEPT !.yank_manager =
                              yank_line(e.yank_manager, Unwrap(content))],
          ret |-> TRUE]
    ELSE [e |-> e, ret |-> FALSE]

\* Position is ordered by row, then by column (derive(PartialOrd, Ord)).
PosLE(a, b) == a.row < b.row \/ (a.row = b.row /\ a.col <= b.col)

normalize_range(start, end) ==
    IF PosLE(start, end) THEN <<start, end>> ELSE <<end, start>>

RECURSIVE ExtractRows(_, _, _, _)
ExtractRows(e, norm_start, norm_end, row_idx) ==
    IF row_idx > norm_end.row THEN <<>>
    ELSE LET here ==
                 IF norm_start.row < Len(e.buffer)
                 THEN LET chars == e.buffer[norm_start.row + 1] IN
                      <<IF row_idx = norm_start.row
                        THEN Skip(chars, norm_start.col)
                        ELSE IF row_idx = norm_end.row
                             THEN Take(chars, norm_end.col + 1)
                             ELSE chars>>
                 ELSE <<>>
         IN  here \o ExtractRows(e, norm_start, norm_end, row_idx + 1)

extract_range_text(e, start, end) ==
    LET norm_start == normalize_range(start, end)[1]
        norm_end == normalize_range(start, end)[2]
    IN  IF norm_start.row = norm_end.row
        THEN IF norm_start.row < Len(e.buffer)
             THEN <<Take(Skip(e.buffer[norm_start.row + 1], norm_start.col),
                         norm_end.col - norm_start.col + 1)>>
             ELSE <<>>
        ELSE ExtractRows(e, norm_start, norm_end, norm_start.row)

RECURSIVE YankLines(_, _, _)
YankLines(ym, lines, i) ==
    IF i > Len(lines) THEN ym
    ELSE YankLines(yank_line(ym, lines[i]), lines, i + 1)

Editor_yank_range(e, start, end) ==
    LET yank_lines == extract_range_text(e, start, end) IN
    IF yank_lines = <<>>
    THEN [e |-> e, ret |-> FALSE]
    ELSE [e |-> [e EXCEPT !.yank_manager =
                    IF Len(yank_lines) = 1
                    THEN yank_inline(e.yank_manager, yank_lines[1])
                    ELSE YankLines(e.yank_manager, yank_lines, 1)],
          ret |-> TRUE]

\* n calls of row.delete_char(at), one after the other.
RECURSIVE DeleteChars(_, _, _)
DeleteChars(r, at, n) ==
    IF n = 0 THEN [row |-> r, panic |-> FALSE]
    ELSE LET d == Row_delete_char(r, at) IN
         IF d.panic THEN [row |-> d.row, panic |-> TRUE]
         ELSE DeleteChars(d.row, at, n - 1)

\* Variant: the rows are deleted at norm_start.row, not norm_start.row + 1.
DeleteRows_wrong_index(rows, at, n) ==
    IF n = 0 THEN rows ELSE Buffer_delete_row(rows, at - 1)

RECURSIVE DeleteRows(_, _, _)
DeleteRows(rows, at, n) ==
    IF n = 0 THEN rows ELSE DeleteRows(Buffer_delete_row(rows, at), at, n - 1)

Editor_delete_range(e, start, end) ==
    LET y == Editor_yank_range(e, start, end)
        norm_start == normalize_range(start, end)[1]
        norm_end == normalize_range(start, end)[2]
    IN  IF ~y.ret THEN [e |-> e, ret |-> FALSE, panic |-> FALSE]
        ELSE IF norm_start.row = norm_end.row
        THEN IF norm_start.row < Len(y.e.buffer)
             THEN LET d == DeleteChars(y.e.buffer[norm_start.row + 1],
                                       norm_start.col,
                                       norm_end.col - norm_start.col + 1)
                  IN  [e |-> [y.e EXCEPT !.buffer[norm_start.row + 1] = d.row,
                                         !.dirty = TRUE],
                       ret |-> TRUE, panic |-> d.panic]
             ELSE [e |-> y.e, ret |-> FALSE, panic |-> FALSE]
        ELSE LET b0 == y.e.buffer
                 b1 == IF norm_start.row < Len(b0)
                       THEN [b0 EXCEPT ![norm_start.row + 1] =
                                Take(b0[norm_start.row + 1], norm_start.col)]
                       ELSE b0
                 tail == IF norm_end.row < Len(b1)
                         THEN Skip(b1[norm_end.row + 1], norm_end.col + 1)
                         ELSE <<>>
                 b2 == DeleteRows(b1, norm_start.row + 1,
                                  norm_end.row - norm_start.row)
                 b3 == IF norm_start.row < Len(b2)
                       THEN [b2 EXCEPT ![norm_start.row + 1] =
                                Row_append(b2[norm_start.row + 1], tail)]
                       ELSE b2
             IN  [e |-> [y.e EXCEPT !.buffer = b3, !.dirty = TRUE],
                  ret |-> TRUE, panic |-> FALSE]

RECURSIVE PasteRows(_, _, _, _)
PasteRows(rows, content, at, i) ==
    IF i >= Len(content) THEN rows
    ELSE PasteRows(Buffer_insert_row(rows, at + i, content[i + 1]),
                   content, at, i + 1)

Editor_paste(e, pos, direction) ==
    IF e.yank_manager.buffer = <<>>
    THEN [e |-> e, ret |-> "Empty", panic |-> FALSE]
    ELSE IF is_newline_yank(e.yank_manager)
    THEN [e |-> [e EXCEPT !.buffer =
                    PasteRows(e.buffer, e.yank_manager.buffer,
                              IF direction = "Below" THEN pos.row + 1
                                                     ELSE pos.row, 0),
                          !.dirty = TRUE],
          ret |-> direction, panic |-> FALSE]
    ELSE LET col == IF direction = "Below" THEN pos.col + 1 ELSE pos.col IN
         IF pos.row < Len(e.buffer)
         THEN LET r == e.buffer[pos.row + 1]
                  safe_col == Min(col, RowLen(r))
                  ins == Row_insert_str(r, safe_col, e.yank_manager.buffer[1])
              IN  [e |-> [e EXCEPT !.buffer[pos.row + 1] = ins.row,
                                   !.dirty = TRUE],
                   ret |-> "InLine", panic |-> ins.panic]
         ELSE [e |-> e, ret |-> "Empty", panic |-> FALSE]

(***************************************************************************)
(* mode.rs: ModeManager                                                    *)
(***************************************************************************)
ModeManagerNew == [current |-> "Normal", visual_start |-> NoValue]

enter_command(m) == [m EXCEPT !.current = "Command"]

enter_normal(m) == [m EXCEPT !.current = "Normal"]

\* Variant: Insert mode can be entered from Normal mode only.
enter_insert_from_normal_only(m) ==
    IF m.current = "Normal" THEN [m EXCEPT !.current = "Insert"] ELSE m

enter_insert(m) == [m EXCEPT !.current = "Insert"]

enter_visual(m, pos) == [m EXCEPT !.visual_start = Some(pos), !.current = "Visual"]

clear_visual(m) == [m EXCEPT !.visual_start = NoValue]

is_normal(m) == m.current = "Normal"

is_command(m) == m.current = "Command"

is_insert(m) == m.current = "Insert"

is_visual(m) == m.current = "Visual"

(***************************************************************************)
(* main.rs: the input loop.  One action per key event and mode.            *)
(***************************************************************************)
\* The file names and the initial file contents that are tried.
Filenames == {"f"}

InitFiles ==
    { File(<<"a">>), File(<<"a", "LF", "W", "LF">>) }

\* The characters typed in Insert mode.
InputChars == {"a", "W"}

\* The command lines typed in Command mode (and their prefixes).
CmdLines ==
    { <<"q">>, <<"q", "!">>, <<"w">>, <<"w", "q">>, <<"e">>, <<"e", "!">>,
      <<"e", " ", "f">>, <<"e", "!", " ", "f">>, <<"x">> }

CmdChars == {"q", "w", "e", "!", " ", "f", "x"}

IsPrefix(s, t) == Len(s) <= Len(t) /\ SubSeq(t, 1, Len(s)) = s

\* main.rs:42: prev_mode is bound once, before the loop, and never updated.
prev_mode == "Normal"

\* str::split_whitespace
RECURSIVE SplitWhitespace(_)
SplitWhitespace(s) ==
    IF s = <<>> THEN <<>>
    ELSE IF Head(s) = " " THEN SplitWhitespace(Tail(s))
    ELSE LET n == CHOOSE k \in 1..Len(s) :
                      /\ \A j \in 1..k : s[j] # " "
                      /\ (k = Len(s) \/ s[k + 1] = " ")
         IN  <<SubSeq(s, 1, n)>> \o SplitWhitespace(SubSeq(s, n + 1, Len(s)))

\* main.rs:239-240
ParsedCmd(cb) ==
    LET parts == SplitWhitespace(cb) IN
    IF parts = <<>> THEN <<>> ELSE parts[1]

\* parts.get(1): the file name argument; file names are one character long.
ParsedArg(cb) ==
    LET parts == SplitWhitespace(cb) IN
    IF Len(parts) >= 2 THEN parts[2][1] ELSE None

Running(m) == loop = "running" /\ mode_manager.current = m

\* main.rs:487-506: the end of every iteration that does not leave the loop.
EndOfIteration(c, e, m, cb, next_pending_key, sm, io) ==
    /\ pending_key' = next_pending_key
    /\ status_message' = IF m.current # prev_mode THEN "" ELSE sm
    /\ cursor' = scroll(c, editor_rows, Len(e.buffer))
    /\ editor' = e
    /\ mode_manager' = m
    /\ command_buffer' = cb
    /\ last' = io
    /\ cleared' = (editor.dirty /\ ~e.dirty)
    /\ UNCHANGED <<loop, editor_rows, probe>>

\* `break`: the loop is left at once.
Break(e, io) ==
    /\ loop' = "exited"
    /\ editor' = e
    /\ last' = io
    /\ cleared' = (editor.dirty /\ ~e.dirty)
    /\ UNCHANGED <<cursor, mode_manager, command_buffer, pending_key,
                   status_message, editor_rows, probe>>

\* A String method panicked: the process aborts.
Panic ==
    /\ loop' = "panicked"
    /\ last' = "panic"
    /\ cleared' = FALSE
    /\ UNCHANGED <<cursor, editor, mode_manager, command_buffer, pending_key,
                   status_message, disk, editor_rows, probe>>

Keep(c, e, m, next_pending_key, sm) ==
    /\ EndOfIteration(c, e, m, command_buffer, next_pending_key, sm, "none")
    /\ UNCHANGED disk

RowExists(e, row) == row < Len(e.buffer)

LineLenAt(e, row) == RowLen(e.buffer[row + 1])

NormalColon ==
    /\ Running("Normal")
    /\ EndOfIteration(cursor, editor, enter_command(mode_manager), <<>>,
                      None, status_message, "none")
    /\ UNCHANGED disk

NormalI ==
    /\ Running("Normal")
    /\ Keep(cursor, editor, enter_insert(mode_manager), None, status_message)

NormalBigI ==
    /\ Running("Normal")
    /\ Keep(move_to_line_start(cursor), editor, enter_insert(mode_manager),
            None, status_message)

NormalA ==
    /\ Running("Normal")
    /\ LET row == file_row(cursor)
           c1 == IF RowExists(editor, row)
                 THEN move_right(cursor, LineLenAt(editor, row) + 1)
                 ELSE cursor
       IN  Keep(c1, editor, enter_insert(mode_manager), None, status_message)

NormalBigA ==
    /\ Running("Normal")
    /\ LET row == file_row(cursor)
           c1 == IF RowExists(editor, row)
                 THEN IF LineLenAt(editor, row) = 0
                      THEN move_to_line_start(cursor)
                      ELSE move_to_line_end(cursor, LineLenAt(editor, row) + 1)
                 ELSE cursor
       IN  Keep(c1, editor, enter_insert(mode_manager), None, status_message)

NormalO ==
    /\ Running("Normal")
    /\ Len(editor.buffer) < MaxRows
    /\ LET row == file_row(cursor)
           e1 == [editor EXCEPT !.buffer =
                      Buffer_insert_row(editor.buffer, row + 1, <<>>)]
           c1 == move_to_line_start(
                     move_down(cursor, editor_rows, Len(e1.buffer)))
       IN  Keep(c1, e1, enter_insert(mode_manager), None, status_message)

NormalBigO ==
    /\ Running("Normal")
    /\ Len(editor.buffer) < MaxRows
    /\ LET row == file_row(cursor)
           e1 == [editor EXCEPT !.buffer =
                      Buffer_insert_row(editor.buffer, row, <<>>)]
       IN  Keep(move_to_line_start(cursor), e1, enter_insert(mode_manager),
                None, status_message)

NormalX ==
    /\ Running("Normal")
    /\ LET pos == position(cursor)
           d == Editor_delete_char_at_cursor(editor, pos)
           line_len == current_line_len(d.e, pos.row)
           c1 == IF d.ret /\ line_len > 0 /\ cursor.x > line_len
                 THEN move_left(cursor)
                 ELSE cursor
       IN  IF d.panic THEN Panic
           ELSE Keep(c1, d.e, mode_manager, None, "")

NormalD ==
    /\ Running("Normal")
    /\ IF pending_key = "d"
       THEN LET d == Editor_delete_line(editor, file_row(cursor))
                info == buffer_info(d.e, file_row(cursor))
                c1 == IF d.ret
                      THEN ensure_within_bounds(cursor, info.buffer_len,
                                                info.line_len, editor_rows)
                      ELSE cursor
            IN  /\ EndOfIteration(c1, d.e, mode_manager, command_buffer, None,
                                  "", IF d.ret THEN "delete_line" ELSE "none")
                /\ UNCHANGED disk
       ELSE Keep(cursor, editor, mode_manager, "d", "")

NormalY ==
    /\ Running("Normal")
    /\ IF pending_key = "y"
       THEN Keep(cursor, Editor_yank_line(editor, file_row(cursor)).e,
                 mode_manager, None, "")
       ELSE Keep(cursor, editor, mode_manager, "y", "")

\* The growth of the buffer by a paste stays within the bounds of the model.
PasteFits(e, pos) ==
    IF e.yank_manager.buffer = <<>> THEN TRUE
    ELSE IF is_newline_yank(e.yank_manager)
    THEN Len(e.buffer) + Len(e.yank_manager.buffer) <= MaxRows
    ELSE RowExists(e, pos.row) =>
             LineLenAt(e, pos.row) + StrLen(e.yank_manager.buffer[1]) <= MaxLineLen

NormalP ==
    /\ Running("Normal")
    /\ PasteFits(editor, position(cursor))
    /\ LET pos == position(cursor)
           p == Editor_paste(editor, pos, "Below")
           c1 == CASE p.ret = "InLine" ->
                          move_right(cursor, current_line_len(p.e, pos.row))
                   [] p.ret = "Below" ->
                          move_down(cursor, editor_rows, Len(p.e.buffer))
                   [] OTHER -> cursor
       IN  IF p.panic THEN Panic
           ELSE Keep(c1, p.e, mode_manager, None, "")

NormalBigP ==
    /\ Running("Normal")
    /\ PasteFits(editor, position(cursor))
    /\ LET pos == position(cursor)
           p == Editor_paste(editor, pos, "Above")
           c1 == IF p.ret = "InLine"
                 THEN move_right(cursor, current_line_len(p.e, pos.row))
                 ELSE cursor
       IN  IF p.panic THEN Panic
           ELSE Keep(c1, p.e, mode_manager, None, "")

NormalV ==
    /\ Running("Normal")
    /\ Keep(cursor, editor, enter_visual(mode_manager, position(cursor)),
            None, status_message)

\* h, j, k, l as they are handled in Normal and in Visual mode.
KeyH(c, e) == move_left(c)

KeyJ(c, e) ==
    LET c1 == move_down(c, editor_rows, Len(e.buffer)) IN
    IF RowExists(e, file_row(c1))
    THEN adjust_cursor_x(c1, LineLenAt(e, file_row(c1)))
    ELSE c1

KeyK(c, e) ==
    LET c1 == move_up(c) IN
    IF RowExists(e, file_row(c1))
    THEN adjust_cursor_x(c1, LineLenAt(e, file_row(c1)))
    ELSE c1

KeyL(c, e) ==
    IF RowExists(e, file_row(c))
    THEN move_right(c, LineLenAt(e, file_row(c)))
    ELSE c

NormalH ==
    /\ Running("Normal")
    /\ Keep(KeyH(cursor, editor), editor, mode_manager, None, status_message)

NormalJ ==
    /\ Running("Normal")
    /\ Keep(KeyJ(cursor, editor), editor, mode_manager, None, status_message)

NormalK ==
    /\ Running("Normal")
    /\ Keep(KeyK(cursor, editor), editor, mode_manager, None, status_message)

NormalL ==
    /\ Running("Normal")
    /\ Keep(KeyL(cursor, editor), editor, mode_manager, None, status_message)

NormalZero ==
    /\ Running("Normal")
    /\ Keep(move_to_line_start(cursor), editor, mode_manager, None,
            status_message)

NormalDollar ==
    /\ Running("Normal")
    /\ LET row == file_row(cursor)
           c1 == IF RowExists(editor, row)
                 THEN move_to_line_end(cursor, LineLenAt(editor, row))
                 ELSE cursor
       IN  Keep(c1, editor, mode_manager, None, status_message)

NormalG ==
    /\ Running("Normal")
    /\ IF pending_key = "g"
       THEN LET c1 == move_to_top(cursor)
                c2 == IF RowExists(editor, file_row(c1))
                      THEN adjust_cursor_x(c1, LineLenAt(editor, file_row(c1)))
                      ELSE c1
            IN  Keep(c2, editor, mode_manager, None, status_message)
       ELSE Keep(cursor, editor, mode_manager, "g", status_message)

NormalBigG ==
    /\ Running("Normal")
    /\ LET c1 == move_to_bottom(cursor, Len(editor.buffer), editor_rows)
           c2 == IF RowExists(editor, file_row(c1))
                 THEN adjust_cursor_x(c1, LineLenAt(editor, file_row(c1)))
                 ELSE c1
       IN  Keep(c2, editor, mode_manager, None, status_message)

\* Any other key in Normal mode.
NormalOther ==
    /\ Running("Normal")
    /\ Keep(cursor, editor, mode_manager, None, status_message)

(***************************************************************************)
(* Command mode (main.rs:236-362)                                          *)
(***************************************************************************)
\* A `q` that leaves the loop without looking at the dirty flag.
CommandEnterQ_unguarded ==
    /\ Running("Command")
    /\ ParsedCmd(command_buffer) = <<"q">>
    /\ UNCHANGED disk
    /\ Break(editor, "none")

CommandEnterQ ==
    /\ Running("Command")
    /\ ParsedCmd(command_buffer) = <<"q">>
    /\ UNCHANGED disk
    /\ IF editor.dirty
       THEN EndOfIteration(cursor, editor, enter_normal(mode_manager), <<>>,
                           None, "NoWrite", "quit_blocked")
       ELSE Break(editor, "none")

CommandEnterQBang ==
    /\ Running("Command")
    /\ ParsedCmd(command_buffer) = <<"q", "!">>
    /\ UNCHANGED disk
    /\ Break(editor, "none")

CommandEnterW ==
    /\ Running("Command")
    /\ ParsedCmd(command_buffer) = <<"w">>
    /\ \E outcome \in SaveOutcomes :
           LET s == Editor_save(editor, disk, outcome) IN
           /\ disk' = s.fs
           /\ EndOfIteration(cursor, s.e, enter_normal(mode_manager), <<>>,
                             None,
                             IF s.ok THEN "Written" ELSE "Error",
                             IF s.ok THEN "save_ok" ELSE "save_err")

\* A `wq` that leaves the loop whether or not the save succeeded.
CommandEnterWq_always_exit ==
    /\ Running("Command")
    /\ ParsedCmd(command_buffer) = <<"w", "q">>
    /\ \E outcome \in SaveOutcomes :
           LET s == Editor_save(editor, disk, outcome) IN
           /\ disk' = s.fs
           /\ Break(s.e, IF s.ok THEN "save_ok" ELSE "save_err")

CommandEnterWq ==
    /\ Running("Command")
    /\ ParsedCmd(command_buffer) = <<"w", "q">>
    /\ \E outcome \in SaveOutcomes :
           LET s == Editor_save(editor, disk, outcome) IN
           /\ disk' = s.fs
           /\ IF s.ok
              THEN Break(s.e, "save_ok")
              ELSE EndOfIteration(cursor, s.e, enter_normal(mode_manager),
                                  <<>>, None, "Error", "save_err")

\* `e <name>` and `e! <name>`
CommandEnterEditName ==
    /\ Running("Command")
    /\ ParsedCmd(command_buffer) \in {<<"e">>, <<"e", "!">>}
    /\ ParsedArg(command_buffer) # None
    /\ UNCHANGED disk
    /\ LET force == ParsedCmd(command_buffer) = <<"e", "!">>
           name == ParsedArg(command_buffer)
       IN  IF ~force /\ editor.dirty
           THEN EndOfIteration(cursor, editor, enter_normal(mode_manager),
                               <<>>, None, "NoWrite", "edit_blocked")
           ELSE \E io_ok \in BOOLEAN :
                    LET o == Editor_open_file(editor, name, disk, io_ok) IN
                    IF o.ok
                    THEN EndOfIteration(CursorNew, o.e,
                                        enter_normal(mode_manager), <<>>,
                                        None, "Loaded", "open_ok")
                    ELSE EndOfIteration(cursor, o.e,
                                        enter_normal(mode_manager), <<>>,
                                        None, "CannotOpen", "open_err")

\* An `e` without a file name that reloads without looking at the dirty flag.
CommandEnterReload_unguarded ==
    /\ Running("Command")
    /\ ParsedCmd(command_buffer) \in {<<"e">>, <<"e", "!">>}
    /\ ParsedArg(command_buffer) = None
    /\ UNCHANGED disk
    /\ \E io_ok \in BOOLEAN :
           LET r == Editor_reload(editor, disk, io_ok)
               info == buffer_info(r.e, file_row(cursor))
           IN  IF r.ok
               THEN EndOfIteration(
                        ensure_within_bounds(cursor, info.buffer_len,
                                             info.line_len, editor_rows),
                        r.e, enter_normal(mode_manager), <<>>, None,
                        "Reloaded", "reload_ok")
               ELSE EndOfIteration(cursor, r.e, enter_normal(mode_manager),
                                   <<>>, None, "Error", "reload_err")

\* `e` and `e!` without a file name
CommandEnterReload ==
    /\ Running("Command")
    /\ ParsedCmd(command_buffer) \in {<<"e">>, <<"e", "!">>}
    /\ ParsedArg(command_buffer) = None
    /\ UNCHANGED disk
    /\ LET force == ParsedCmd(command_buffer) = <<"e", "!">> IN
       IF ~force /\ editor.dirty
       THEN EndOfIteration(cursor, editor, enter_normal(mode_manager),
                           <<>>, None, "NoWrite", "edit_blocked")
       ELSE \E io_ok \in BOOLEAN :
                LET r == Editor_reload(editor, disk, io_ok)
                    info == buffer_info(r.e, file_row(cursor))
                IN  IF r.ok
                    THEN EndOfIteration(
                             ensure_within_bounds(cursor, info.buffer_len,
                                                  info.line_len, editor_rows),
                             r.e, enter_normal(mode_manager), <<>>, None,
                             "Reloaded", "reload_ok")
                    ELSE EndOfIteration(cursor, r.e,
                                        enter_normal(mode_manager), <<>>,
                                        None, "Error", "reload_err")

CommandEnterEmpty ==
    /\ Running("Command")
    /\ ParsedCmd(command_buffer) = <<>>
    /\ UNCHANGED disk
    /\ EndOfIteration(cursor, editor, enter_normal(mode_manager), <<>>,
                      None, status_message, "none")

\* Variant: an unknown command returns to Normal mode without clearing the
\* command buffer.
CommandEnterUnknown_keeps_text ==
    /\ Running("Command")
    /\ ParsedCmd(command_buffer) \notin
           {<<"q">>, <<"q", "!">>, <<"w">>, <<"w", "q">>, <<"e">>,
            <<"e", "!">>, <<>>}
    /\ UNCHANGED disk
    /\ EndOfIteration(cursor, editor, enter_normal(mode_manager),
                      command_buffer, None, "NotCommand", "none")

CommandEnterUnknown ==
    /\ Running("Command")
    /\ ParsedCmd(command_buffer) \notin
           {<<"q">>, <<"q", "!">>, <<"w">>, <<"w", "q">>, <<"e">>,
            <<"e", "!">>, <<>>}
    /\ UNCHANGED disk
    /\ EndOfIteration(cursor, editor, enter_normal(mode_manager), <<>>,
                      None, "NotCommand", "none")

CommandEsc ==
    /\ Running("Command")
    /\ UNCHANGED disk
    /\ EndOfIteration(cursor, editor, enter_normal(mode_manager), <<>>,
                      None, status_message, "none")

CommandChar ==
    /\ Running("Command")
    /\ UNCHANGED disk
    /\ \E c \in CmdChars :
           /\ \E line \in CmdLines : IsPrefix(Append(command_buffer, c), line)
           /\ EndOfIteration(cursor, editor, mode_manager,
                             Append(command_buffer, c), None,
                             status_message, "none")

CommandBackspace ==
    /\ Running("Command")
    /\ UNCHANGED disk
    /\ EndOfIteration(cursor, editor, mode_manager,
                      IF command_buffer = <<>> THEN <<>>
                      ELSE SubSeq(command_buffer, 1, Len(command_buffer) - 1),
                      None, status_message, "none")

\* Any other key in Command mode.
CommandOther ==
    /\ Running("Command")
    /\ Keep(cursor, editor, mode_manager, None, status_message)

(***************************************************************************)
(* Insert mode (main.rs:363-407)                                           *)
(***************************************************************************)
\* Variant: Esc in Insert mode opens the command line.
InsertEsc_to_command ==
    /\ Running("Insert")
    /\ Keep(move_left(cursor), editor, enter_command(mode_manager), None,
            status_message)

InsertEsc ==
    /\ Running("Insert")
    /\ Keep(move_left(cursor), editor, enter_normal(mode_manager), None,
            status_message)

InsertEnter ==
    /\ Running("Insert")
    /\ Len(editor.buffer) < MaxRows
    /\ LET n == Editor_insert_newline(editor, position(cursor))
           c1 == move_to_line_start(
                     move_down(cursor, editor_rows, Len(n.e.buffer)))
       IN  IF n.panic THEN Panic
           ELSE Keep(c1, n.e, mode_manager, None, status_message)

InsertBackspace ==
    /\ Running("Insert")
    /\ LET pos == position(cursor) IN
       IF pos.col > 0
       THEN LET d == Editor_delete_char(editor,
                                        [row |-> pos.row, col |-> pos.col - 1])
            IN  IF d.panic THEN Panic
                ELSE Keep(move_left(cursor), d.e, mode_manager, None,
                          status_message)
       ELSE IF pos.row > 0
       THEN LET prev_row == pos.row - 1
                prev_line_len == IF RowExists(editor, prev_row)
                                 THEN LineLenAt(editor, prev_row)
                                 ELSE 0
            IN  /\ RowExists(editor, pos.row) =>
                       prev_line_len + LineLenAt(editor, pos.row) <= MaxLineLen
                /\ Keep(move_to_line_end(move_up(cursor), prev_line_len + 1),
                        Editor_join_rows(editor, pos.row), mode_manager, None,
                        status_message)
       ELSE Keep(cursor, editor, mode_manager, None, status_message)

InsertChar ==
    /\ Running("Insert")
    /\ \E ch \in InputChars :
           LET pos == position(cursor)
               i == Editor_insert_char(editor, pos, ch)
               c1 == move_right(cursor,
                                (IF RowExists(i.e, pos.row)
                                 THEN LineLenAt(i.e, pos.row) ELSE 0) + 1)
           IN  /\ IF RowExists(editor, pos.row)
                  THEN LineLenAt(editor, pos.row) + ByteLen(ch) <= MaxLineLen
                  ELSE Len(editor.buffer) < MaxRows
               /\ IF i.panic THEN Panic
                  ELSE Keep(c1, i.e, mode_manager, None, status_message)

\* Any other key in Insert mode.
InsertOther ==
    /\ Running("Insert")
    /\ Keep(cursor, editor, mode_manager, None, status_message)

(***************************************************************************)
(* Visual mode (main.rs:408-485)                                           *)
(***************************************************************************)
\* Variant: Esc in Visual mode leaves the anchor in place.
VisualEsc_keeps_anchor ==
    /\ Running("Visual")
    /\ Keep(cursor, editor, enter_normal(mode_manager), None, "")

VisualEsc ==
    /\ Running("Visual")
    /\ Keep(cursor, editor, clear_visual(enter_normal(mode_manager)), None, "")

VisualH ==
    /\ Running("Visual")
    /\ Keep(KeyH(cursor, editor), editor, mode_manager, None, status_message)

VisualJ ==
    /\ Running("Visual")
    /\ Keep(KeyJ(cursor, editor), editor, mode_manager, None, status_message)

VisualK ==
    /\ Running("Visual")
    /\ Keep(KeyK(cursor, editor), editor, mode_manager, None, status_message)

VisualL ==
    /\ Running("Visual")
    /\ Keep(KeyL(cursor, editor), editor, mode_manager, None, status_message)

VisualY ==
    /\ Running("Visual")
    /\ IF mode_manager.visual_start # NoValue
       THEN LET start == Unwrap(mode_manager.visual_start)
                y == Editor_yank_range(editor, start, position(cursor))
            IN  Keep(cursor, y.e, clear_visual(enter_normal(mode_manager)),
                     None, "Yanked")
       ELSE Keep(cursor, editor, mode_manager, None, status_message)

RECURSIVE MoveUpTimes(_, _)
MoveUpTimes(c, n) == IF n = 0 THEN c ELSE MoveUpTimes(move_up(c), n - 1)

RECURSIVE MoveDownTimes(_, _, _, _)
MoveDownTimes(c, n, rows, buffer_len) ==
    IF n = 0 THEN c
    ELSE MoveDownTimes(move_down(c, rows, buffer_len), n - 1, rows, buffer_len)

RECURSIVE MoveRightTimes(_, _, _)
MoveRightTimes(c, n, line_len) ==
    IF n = 0 THEN c ELSE MoveRightTimes(move_right(c, line_len), n - 1, line_len)

\* main.rs:453-476: the cursor goes to the start of the deleted range.
CursorAfterDeleteRange(c, e, norm_start) ==
    LET current_row == file_row(c)
        c1 == IF norm_start.row < current_row
              THEN MoveUpTimes(c, current_row - norm_start.row)
              ELSE IF norm_start.row > current_row
                   THEN MoveDownTimes(c, norm_start.row - current_row,
                                      editor_rows, Len(e.buffer))
                   ELSE c
        line_len == current_line_len(e, norm_start.row)
        c2 == MoveRightTimes(move_to_line_start(c1),
                             Min(norm_start.col, line_len), line_len)
    IN  scroll(c2, editor_rows, Len(e.buffer))

VisualD ==
    /\ Running("Visual")
    /\ IF mode_manager.visual_start # NoValue
       THEN LET start == Unwrap(mode_manager.visual_start)
                end == position(cursor)
                d == Editor_delete_range(editor, start, end)
                c1 == IF d.ret
                      THEN CursorAfterDeleteRange(cursor, d.e,
                               normalize_range(start, end)[1])
                      ELSE cursor
            IN  IF d.panic THEN Panic
                ELSE Keep(c1, d.e, clear_visual(enter_normal(mode_manager)),
                          None, "Deleted")
       ELSE Keep(cursor, editor, mode_manager, None, status_message)

\* Any other key in Visual mode.
VisualOther ==
    /\ Running("Visual")
    /\ Keep(cursor, editor, mode_manager, None, status_message)

(***************************************************************************)
(* The input loop: main.rs:14-62 and the loop body.                        *)
(***************************************************************************)
Init ==
    /\ probe = [kind |-> "none"]
    /\ editor_rows \in 1..MaxEditorRows
    /\ disk \in [Filenames -> InitFiles]
    /\ \E arg \in Filenames \cup {None} :
           IF arg = None
           THEN editor = EditorNew
           ELSE /\ disk[arg].exists
                /\ editor = Editor_from_buffer(
                                FileIO_open(disk[arg].content).buffer, arg)
    /\ cleared = FALSE
    /\ cursor = CursorNew
    /\ mode_manager = ModeManagerNew
    /\ command_buffer = <<>>
    /\ pending_key = None
    /\ status_message = ""
    /\ loop = "running"
    /\ last = "none"

Next ==
    \/ NormalColon \/ NormalI \/ NormalBigI \/ NormalA \/ NormalBigA
    \/ NormalO \/ NormalBigO \/ NormalX \/ NormalD \/ NormalY
    \/ NormalP \/ NormalBigP \/ NormalV
    \/ NormalH \/ NormalJ \/ NormalK \/ NormalL
    \/ NormalZero \/ NormalDollar \/ NormalG \/ NormalBigG \/ NormalOther
    \/ CommandEnterQ \/ CommandEnterQBang \/ CommandEnterW \/ CommandEnterWq
    \/ CommandEnterEditName \/ CommandEnterReload
    \/ CommandEnterEmpty \/ CommandEnterUnknown
    \/ CommandEsc \/ CommandChar \/ CommandBackspace \/ CommandOther
    \/ InsertEsc \/ InsertEnter \/ InsertBackspace \/ InsertChar \/ InsertOther
    \/ VisualEsc \/ VisualH \/ VisualJ \/ VisualK \/ VisualL
    \/ VisualY \/ VisualD \/ VisualOther

Spec == Init /\ [][Next]_vars

(***************************************************************************)
(* Operations applied in isolation.  In these specifications the input     *)
(* loop is off; probe holds the inputs, drawn from bounded sets, and the   *)
(* results of the operation under study.                                   *)
(***************************************************************************)
LoopOff ==
    /\ cursor = CursorNew
    /\ mode_manager = ModeManagerNew
    /\ command_buffer = <<>>
    /\ pending_key = None
    /\ status_message = ""
    /\ loop = "off"
    /\ disk = [n \in Filenames |-> NoFile]
    /\ editor_rows = 1
    /\ last = "none"
    /\ cleared = FALSE

loop_vars == <<cursor, mode_manager, command_buffer, pending_key,
               status_message, loop, disk, editor_rows, last, cleared>>

\* All sequences over S of length at most n.
RECURSIVE SeqsUpTo(_, _)
SeqsUpTo(S, n) ==
    IF n = 0 THEN {<<>>}
    ELSE LET shorter == SeqsUpTo(S, n - 1) IN
         shorter \cup {Append(t, c) : t \in shorter, c \in S}

(***************************************************************************)
(* The Cursor operations on an arbitrary cursor: scroll called twice in a  *)
(* row, or one of ensure_within_bounds, the four move_* and                *)
(* move_to_top / move_to_bottom called once.  Buffer and line lengths are  *)
(* small, or just beyond what a u16 holds.                                 *)
(***************************************************************************)
InitScroll ==
    /\ LoopOff
    /\ editor = EditorNew
    /\ probe \in { [kind |-> "scroll", stage |-> 0, op |-> "none", rows |-> r,
                    buffer_len |-> n, line_len |-> 0,
                    c0 |-> c, c1 |-> c, c2 |-> c] :
                   r \in 1..MaxScrollRows,
                   n \in (0..MaxBufLen)
                         \cup {U16Range + k : k \in 0..MaxBufLen},
                   c \in [x : 1..MaxCoord, y : 1..MaxCoord,
                          row_offset : 0..MaxCoord] }

ScrollOnce ==
    /\ probe.kind = "scroll" /\ probe.stage = 0 /\ probe.op = "none"
    /\ probe' = [probe EXCEPT !.stage = 1,
                              !.c1 = scroll(probe.c0, probe.rows,
                                            probe.buffer_len)]
    /\ UNCHANGED <<editor, loop_vars>>

ScrollTwice ==
    /\ probe.kind = "scroll" /\ probe.stage = 1
    /\ probe' = [probe EXCEPT !.stage = 2,
                              !.c2 = scroll(probe.c1, probe.rows,
                                            probe.buffer_len)]
    /\ UNCHANGED <<editor, loop_vars>>

EnsureWithinBounds ==
    /\ probe.kind = "scroll" /\ probe.stage = 0 /\ probe.op = "none"
    /\ \E line_len \in (0..MaxCoord) \cup {U16Range, U16Range + 1} :
           probe' = [probe EXCEPT
                        !.op = "ensure_within_bounds",
                        !.line_len = line_len,
                        !.c1 = ensure_within_bounds(probe.c0, probe.buffer_len,
                                                    line_len, probe.rows)]
    /\ UNCHANGED <<editor, loop_vars>>

\* One of move_left, move_right, move_up, move_down.
MoveOnce ==
    /\ probe.kind = "scroll" /\ probe.stage = 0 /\ probe.op = "none"
    /\ \/ probe' = [probe EXCEPT !.op = "move_left",
                                  !.c1 = move_left(probe.c0)]
       \/ \E line_len \in (0..MaxCoord) \cup {U16Range, U16Range + 1} :
              probe' = [probe EXCEPT !.op = "move_right",
                                     !.line_len = line_len,
                                     !.c1 = move_right(probe.c0, line_len)]
       \/ probe' = [probe EXCEPT !.op = "move_up",
                                  !.c1 = move_up(probe.c0)]
       \/ probe' = [probe EXCEPT !.op = "move_down",
                                  !.c1 = move_down(probe.c0, probe.rows,
                                                   probe.buffer_len)]
    /\ UNCHANGED <<editor, loop_vars>>

\* move_to_top or move_to_bottom.
MoveToEnd ==
    /\ probe.kind = "scroll" /\ probe.stage = 0 /\ probe.op = "none"
    /\ \/ probe' = [probe EXCEPT !.op = "move_to_top",
                                  !.c1 = move_to_top(probe.c0)]
       \/ probe' = [probe EXCEPT !.op = "move_to_bottom",
                                  !.c1 = move_to_bottom(probe.c0,
                                                        probe.buffer_len,
                                                        probe.rows)]
    /\ UNCHANGED <<editor, loop_vars>>

SpecScroll ==
    InitScroll /\ [][ScrollOnce \/ ScrollTwice \/ EnsureWithinBounds
                      \/ MoveOnce \/ MoveToEnd]_vars

(***************************************************************************)
(* FileIO::open of a file followed by FileIO::save of what was opened.     *)
(***************************************************************************)
InitFileIO ==
    /\ LoopOff
    /\ editor = EditorNew
    /\ probe \in { [kind |-> "fileio", stage |-> 0, content |-> c,
                    opened |-> [buffer |-> <<>>, ends_with_newline |-> FALSE],
                    saved |-> <<>>] :
                   c \in SeqsUpTo({"a", "LF", "CR"}, MaxContentLen) }

FileOpen ==
    /\ probe.kind = "fileio" /\ probe.stage = 0
    /\ probe' = [probe EXCEPT !.stage = 1,
                              !.opened = FileIO_open(probe.content)]
    /\ UNCHANGED <<editor, loop_vars>>

FileSave ==
    /\ probe.kind = "fileio" /\ probe.stage = 1
    /\ probe' = [probe EXCEPT !.stage = 2,
                              !.saved = FileIO_save(probe.opened.buffer,
                                            probe.opened.ends_with_newline)]
    /\ UNCHANGED <<editor, loop_vars>>

SpecFileIO == InitFileIO /\ [][FileOpen \/ FileSave]_vars

(***************************************************************************)
(* FileIO::save of a buffer and a trailing-newline flag, followed by       *)
(* FileIO::open of what was written.  The rows hold no newline characters. *)
(***************************************************************************)
InitSaveOpen ==
    /\ LoopOff
    /\ editor = EditorNew
    /\ probe \in { [kind |-> "saveopen", stage |-> 0, buffer |-> b,
                    ends_with_newline |-> f, saved |-> <<>>,
                    opened |-> [buffer |-> <<>>, ends_with_newline |-> FALSE]] :
                   b \in SeqsUpTo(SeqsUpTo({"a", "W"}, MaxProbeLen),
                                  MaxProbeRows),
                   f \in BOOLEAN }

BufferSave ==
    /\ probe.kind = "saveopen" /\ probe.stage = 0
    /\ probe' = [probe EXCEPT !.stage = 1,
                              !.saved = FileIO_save(probe.buffer,
                                                    probe.ends_with_newline)]
    /\ UNCHANGED <<editor, loop_vars>>

ReOpen ==
    /\ probe.kind = "saveopen" /\ probe.stage = 1
    /\ probe' = [probe EXCEPT !.stage = 2,
                              !.opened = FileIO_open(probe.saved)]
    /\ UNCHANGED <<editor, loop_vars>>

SpecSaveOpen == InitSaveOpen /\ [][BufferSave \/ ReOpen]_vars

(***************************************************************************)
(* The Editor's yank, delete and paste operations on an arbitrary buffer   *)
(* and an arbitrary pair of positions: one of extract_range_text,          *)
(* yank_range, delete_range, yank_line, delete_line and                    *)
(* delete_char_at_cursor is applied first (the last three at probe.start), *)
(* then paste may be applied at probe.end to what the first left.  The     *)
(* Buffer's own operations are applied at probe.start to the buffer of an  *)
(* unmodified editor with an empty register.                               *)
(***************************************************************************)
ProbeChars == {"a", "b", "W"}

InitRange ==
    /\ LoopOff
    /\ editor \in { [EditorNew EXCEPT !.buffer = b, !.dirty = d,
                                       !.yank_manager = ym] :
                     b \in SeqsUpTo(SeqsUpTo(ProbeChars, MaxProbeLen),
                                    MaxProbeRows),
                     d \in BOOLEAN,
                     ym \in {YankManagerNew,
                             yank_line(YankManagerNew, <<"b">>)} }
    /\ probe \in { [kind |-> "range", op |-> "none", start |-> s, end |-> t,
                    before |-> editor, ret |-> FALSE, panic |-> FALSE,
                    lines |-> <<>>, paste |-> "none", mid |-> editor,
                    paste_ret |-> "none", ch |-> None, out |-> None] :
                   s \in [row : 0..MaxProbeRows, col : 0..MaxProbeLen],
                   t \in [row : 0..MaxProbeRows, col : 0..MaxProbeLen] }

RangeYank ==
    /\ probe.kind = "range" /\ probe.op = "none"
    /\ LET y == Editor_yank_range(editor, probe.start, probe.end) IN
       /\ editor' = y.e
       /\ probe' = [probe EXCEPT !.op = "yank_range", !.ret = y.ret]
    /\ UNCHANGED loop_vars

RangeDelete ==
    /\ probe.kind = "range" /\ probe.op = "none"
    /\ LET d == Editor_delete_range(editor, probe.start, probe.end) IN
       /\ editor' = d.e
       /\ probe' = [probe EXCEPT !.op = "delete_range", !.ret = d.ret,
                                 !.panic = d.panic]
    /\ UNCHANGED loop_vars

RangeExtract ==
    /\ probe.kind = "range" /\ probe.op = "none"
    /\ probe' = [probe EXCEPT !.op = "extract_range_text",
                              !.lines = extract_range_text(editor, probe.start,
                                                           probe.end)]
    /\ UNCHANGED <<editor, loop_vars>>

LineYank ==
    /\ probe.kind = "range" /\ probe.op = "none"
    /\ LET y == Editor_yank_line(editor, probe.start.row) IN
       /\ editor' = y.e
       /\ probe' = [probe EXCEPT !.op = "yank_line", !.ret = y.ret]
    /\ UNCHANGED loop_vars

LineDelete ==
    /\ probe.kind = "range" /\ probe.op = "none"
    /\ LET d == Editor_delete_line(editor, probe.start.row) IN
       /\ editor' = d.e
       /\ probe' = [probe EXCEPT !.op = "delete_line", !.ret = d.ret]
    /\ UNCHANGED loop_vars

CharDelete ==
    /\ probe.kind = "range" /\ probe.op = "none"
    /\ LET d == Editor_delete_char_at_cursor(editor, probe.start) IN
       /\ editor' = d.e
       /\ probe' = [probe EXCEPT !.op = "delete_char_at_cursor",
                                 !.ret = d.ret, !.panic = d.panic]
    /\ UNCHANGED loop_vars

\* Editor::paste at probe.end, after an operation that did not panic.
Paste ==
    /\ probe.kind = "range"
    /\ probe.op \in {"yank_range", "delete_range", "yank_line",
                     "delete_line", "delete_char_at_cursor"}
    /\ probe.paste = "none" /\ ~probe.panic
    /\ \E direction \in {"Below", "Above"} :
           LET p == Editor_paste(editor, probe.end, direction) IN
           /\ editor' = p.e
           /\ probe' = [probe EXCEPT !.paste = direction, !.mid = editor,
                                     !.paste_ret = p.ret, !.panic = p.panic]
    /\ UNCHANGED loop_vars

\* Buffer::insert_char(pos, ch), then Buffer::delete_char(pos) unless the
\* insertion panicked; probe.mid holds the buffer between the two.
InsertThenDelete ==
    /\ probe.kind = "range" /\ probe.op = "none"
    /\ probe.end = probe.start
    /\ ~editor.dirty /\ editor.yank_manager = YankManagerNew
    /\ \E ch \in ProbeChars :
           LET pos == probe.start
               i == Buffer_insert_char(editor.buffer, pos.row, pos.col, ch)
               d == IF i.panic
                    THEN [rows |-> i.rows, ret |-> None, panic |-> TRUE]
                    ELSE Buffer_delete_char(i.rows, pos.row, pos.col)
           IN  /\ editor' = [editor EXCEPT !.buffer = d.rows]
               /\ probe' = [probe EXCEPT !.op = "insert_char;delete_char",
                                         !.ch = ch,
                                         !.mid = [editor EXCEPT !.buffer = i.rows],
                                         !.out = d.ret, !.panic = d.panic]
    /\ UNCHANGED loop_vars

\* One request to the buffer at row probe.start.row (and column
\* probe.start.col for delete_char), in range or not.
BufferRequest ==
    /\ probe.kind = "range" /\ probe.op = "none"
    /\ probe.end = probe.start
    /\ ~editor.dirty /\ editor.yank_manager = YankManagerNew
    /\ LET at == probe.start.row
           col == probe.start.col
           rows == editor.buffer
       IN  \/ /\ editor' = [editor EXCEPT
                                !.buffer = Buffer_insert_row(rows, at, <<"a">>)]
              /\ probe' = [probe EXCEPT !.op = "insert_row"]
           \/ /\ editor' = [editor EXCEPT !.buffer = Buffer_delete_row(rows, at)]
              /\ probe' = [probe EXCEPT !.op = "delete_row"]
           \/ LET d == Buffer_delete_row_with_content(rows, at) IN
              /\ editor' = [editor EXCEPT !.buffer = d.rows]
              /\ probe' = [probe EXCEPT !.op = "delete_row_with_content",
                                        !.out = d.ret]
           \/ LET d == Buffer_delete_char(rows, at, col) IN
              /\ editor' = [editor EXCEPT !.buffer = d.rows]
              /\ probe' = [probe EXCEPT !.op = "delete_char", !.out = d.ret,
                                        !.panic = d.panic]
           \/ /\ editor' = [editor EXCEPT !.buffer = Buffer_join_rows(rows, at)]
              /\ probe' = [probe EXCEPT !.op = "join_rows"]
    /\ UNCHANGED loop_vars

\* Buffer::insert_newline(pos).
BufferInsertNewline ==
    /\ probe.kind = "range" /\ probe.op = "none"
    /\ probe.end = probe.start
    /\ ~editor.dirty /\ editor.yank_manager = YankManagerNew
    /\ LET n == Buffer_insert_newline(editor.buffer, probe.start.row,
                                      probe.start.col) IN
       /\ editor' = [editor EXCEPT !.buffer = n.rows]
       /\ probe' = [probe EXCEPT !.op = "insert_newline", !.panic = n.panic]
    /\ UNCHANGED loop_vars

\* Buffer::join_rows(pos.row + 1) after an insert_newline(pos) that did not
\* panic; probe.mid holds the buffer between the two.
JoinAfterNewline ==
    /\ probe.kind = "range" /\ probe.op = "insert_newline" /\ ~probe.panic
    /\ editor' = [editor EXCEPT
                     !.buffer = Buffer_join_rows(editor.buffer,
                                                 probe.start.row + 1)]
    /\ probe' = [probe EXCEPT !.op = "insert_newline;join_rows",
                              !.mid = editor]
    /\ UNCHANGED loop_vars

SpecRange ==
    InitRange /\ [][RangeYank \/ RangeDelete \/ RangeExtract \/ LineYank
                     \/ LineDelete \/ CharDelete \/ Paste
                     \/ InsertThenDelete \/ BufferRequest
                     \/ BufferInsertNewline \/ JoinAfterNewline]_vars

(***************************************************************************)
(* The same edit operations applied to three editors that differ in their  *)
(* clipboard only: absent, present with every set_text failing, present    *)
(* with every set_text succeeding.  probe.runs holds, per clipboard, the   *)
(* editor, the clipboard, the values returned so far and whether the run   *)
(* has panicked.  delete_char_at_cursor, delete_line, yank_line and        *)
(* yank_range (also inside delete_range) call sync_to_clipboard once their *)
(* yank has been stored; the register is not written again afterwards, so  *)
(* the call is applied to the editor the operation leaves.                 *)
(***************************************************************************)
MaxEdits == 2         \* edit operations applied to each editor

InitClipboard ==
    /\ LoopOff
    /\ editor = EditorNew
    /\ probe \in { [kind |-> "clipboard", steps |-> 0, last_op |-> "none",
                    runs |-> [h \in {"absent", "fails", "succeeds"} |->
                                 [e |-> [EditorNew EXCEPT !.buffer = b],
                                  clipboard |-> [handle |-> h, text |-> NoValue],
                                  rets |-> <<>>, panic |-> FALSE]]] :
                   b \in SeqsUpTo(SeqsUpTo({"a", "W"}, MaxProbeLen),
                                  MaxProbeRows) }

ClipboardEdit ==
    /\ probe.kind = "clipboard" /\ probe.steps < MaxEdits
    /\ \A h \in DOMAIN probe.runs : ~probe.runs[h].panic
    /\ LET Positions == [row : 0..MaxProbeRows, col : 0..MaxProbeLen]
           After(run, r, synced, panic) ==
               LET s == IF synced
                        THEN sync_to_clipboard(r.e, run.clipboard)
                        ELSE [e |-> r.e, clipboard |-> run.clipboard]
               IN  [e |-> s.e, clipboard |-> s.clipboard,
                    rets |-> Append(run.rets, r.ret), panic |-> panic]
           Advance(op, Do(_)) ==
               probe' = [probe EXCEPT !.steps = @ + 1, !.last_op = op,
                                      !.runs = [h \in DOMAIN @ |-> Do(@[h])]]
       IN  \/ \E pos \in Positions :
                  LET Do(run) ==
                          LET r == Editor_delete_char_at_cursor(run.e, pos)
                          IN  After(run, r, r.ret /\ ~r.panic, r.panic)
                  IN  Advance("delete_char_at_cursor", Do)
           \/ \E row \in 0..MaxProbeRows :
                  LET Do(run) ==
                          LET r == Editor_delete_line(run.e, row)
                          IN  After(run, r, r.ret, FALSE)
                  IN  Advance("delete_line", Do)
           \/ \E row \in 0..MaxProbeRows :
                  LET Do(run) ==
                          LET r == Editor_yank_line(run.e, row)
                          IN  After(run, r, r.ret, FALSE)
                  IN  Advance("yank_line", Do)
           \/ \E start \in Positions, end \in Positions :
                  LET Do(run) ==
                          LET r == Editor_yank_range(run.e, start, end)
                          IN  After(run, r, r.ret, FALSE)
                  IN  Advance("yank_range", Do)
           \/ \E start \in Positions, end \in Positions :
                  LET Do(run) ==
                          LET r == Editor_delete_range(run.e, start, end)
                          IN  After(run, r, r.ret, r.panic)
                  IN  Advance("delete_range", Do)
           \/ \E pos \in Positions, direction \in {"Below", "Above"} :
                  LET Do(run) ==
                          LET r == Editor_paste(run.e, pos, direction)
                          IN  After(run, r, FALSE, r.panic)
                  IN  Advance("paste", Do)
    /\ UNCHANGED <<editor, loop_vars>>

SpecClipboard == InitClipboard /\ [][ClipboardEdit]_vars

(***************************************************************************)
(* One ModeManager command applied to a manager in any state: any mode,    *)
(* with or without an anchor.                                              *)
(***************************************************************************)
InitMode ==
    /\ LoopOff
    /\ editor = EditorNew
    /\ probe \in { [kind |-> "mode", op |-> "none", before |-> m, after |-> m] :
                   m \in [current : {"Normal", "Command", "Insert", "Visual"},
                          visual_start :
                              {NoValue} \cup
                              { Some(pos) : pos \in [row : 0..MaxProbeRows,
                                                     col : 0..MaxProbeLen] }] }

ModeCommand ==
    /\ probe.kind = "mode" /\ probe.op = "none"
    /\ \/ probe' = [probe EXCEPT !.op = "enter_normal",
                                 !.after = enter_normal(probe.before)]
       \/ probe' = [probe EXCEPT !.op = "enter_insert",
                                 !.after = enter_insert(probe.before)]
       \/ probe' = [probe EXCEPT !.op = "enter_command",
                                 !.after = enter_command(probe.before)]
       \/ \E pos \in [row : 0..MaxProbeRows, col : 0..MaxProbeLen] :
              probe' = [probe EXCEPT !.op = "enter_visual",
                                     !.after = enter_visual(probe.before, pos)]
       \/ probe' = [probe EXCEPT !.op = "clear_visual",
                                 !.after = clear_visual(probe.before)]
    /\ UNCHANGED <<editor, loop_vars>>

SpecMode == InitMode /\ [][ModeCommand]_vars


(***************************************************************************)
(* Properties.                                                             *)
(***************************************************************************)

\* C1: after every key event processed by the input loop the cursor is
\* inside the buffer and inside the viewport: when the buffer is non-empty
\* the file row row_offset + y - 1 is at most buffer_len - 1 and
\* 1 <= y <= editor_rows; when the buffer is empty y = 1 and row_offset = 0.
C1_CursorInsideBufferAndViewport ==
    loop = "running" =>
        IF Len(editor.buffer) > 0
        THEN /\ cursor.row_offset + cursor.y - 1 <= Len(editor.buffer) - 1
             /\ 1 <= cursor.y
             /\ cursor.y <= editor_rows
        ELSE cursor.y = 1 /\ cursor.row_offset = 0

\* A key event has left the viewport scrolled down, on the last screen row.
C1_Witness ==
    /\ loop = "running"
    /\ Len(editor.buffer) > editor_rows
    /\ cursor.row_offset > 0
    /\ cursor.y = editor_rows

\* C2: scroll is idempotent: from every cursor, a second scroll with the
\* same editor_rows and buffer_len leaves y and row_offset as the first
\* scroll left them.
C2_ScrollIdempotent ==
    (probe.kind = "scroll" /\ probe.stage = 2) =>
        /\ probe.c2.y = probe.c1.y
        /\ probe.c2.row_offset = probe.c1.row_offset

\* Two scrolls were applied to a cursor that the first scroll had to move,
\* in a buffer longer than the viewport.
C2_Witness ==
    /\ probe.kind = "scroll" /\ probe.stage = 2
    /\ probe.buffer_len > probe.rows
    /\ probe.c1.row_offset # probe.c0.row_offset
    /\ probe.c1.y # probe.c0.y


\* C3 as stated: the dirty flag goes from true to false only in a key event
\* whose save() returned Ok.
C3_DirtyClearedOnlyBySave ==
    [][(editor.dirty /\ ~editor'.dirty) => last' = "save_ok"]_vars

\* C3, amended: the dirty flag goes from true to false only in a key event
\* whose save(), open_file() or reload() returned Ok; after open_file or
\* reload the buffer is the content of the file that was read.
C3_DirtyClearedOnlyBySaveOrLoad ==
    [][(editor.dirty /\ ~editor'.dirty) =>
          \/ /\ last' = "save_ok"
             /\ editor'.buffer = editor.buffer
             /\ disk'[editor.filename] =
                    File(FileIO_save(editor.buffer, editor.ends_with_newline))
          \/ /\ last' \in {"open_ok", "reload_ok"}
             /\ editor'.buffer = FileIO_open(disk[editor'.filename].content).buffer
      ]_vars

\* A forced reload of a modified session has succeeded: it is clean again.
C3_Witness ==
    /\ loop = "running"
    /\ last = "reload_ok"
    /\ cleared
    /\ status_message = "Reloaded"
    /\ ~editor.dirty

\* C4: `q` with dirty set keeps the loop running, sets the warning, returns
\* to Normal mode and changes neither buffer nor dirty; `q` with dirty clear
\* leaves the loop; `q!` leaves the loop whatever dirty is.
C4_QuitGuard ==
    [][/\ CommandEnterQ =>
              IF editor.dirty
              THEN /\ loop' = "running"
                   /\ status_message' = "NoWrite"
                   /\ mode_manager'.current = "Normal"
                   /\ editor'.buffer = editor.buffer
                   /\ editor'.dirty
              ELSE loop' = "exited"
       /\ CommandEnterQBang => loop' = "exited"
      ]_vars

\* `q` was refused on a session with unsaved changes.
C4_Witness ==
    /\ loop = "running"
    /\ last = "quit_blocked"
    /\ editor.dirty
    /\ status_message = "NoWrite"

\* C5: `e` and `e <name>` with dirty set leave buffer, filename, dirty flag,
\* trailing-newline flag and cursor as they were and set the warning;
\* `e!` and `e! <name>` attempt the reload or open whatever dirty is, and
\* when it succeeds the session holds the file's content and is clean.
C5_EditGuard ==
    [][(CommandEnterReload \/ CommandEnterEditName) =>
          IF ParsedCmd(command_buffer) = <<"e">> /\ editor.dirty
          THEN /\ editor'.buffer = editor.buffer
               /\ editor'.filename = editor.filename
               /\ editor'.dirty
               /\ editor'.ends_with_newline = editor.ends_with_newline
               /\ cursor' = cursor
               /\ status_message' = "NoWrite"
               /\ loop' = "running"
          ELSE /\ last' \in {"open_ok", "open_err", "reload_ok", "reload_err"}
               /\ last' \in {"open_ok", "reload_ok"} =>
                      /\ ~editor'.dirty
                      /\ editor'.buffer =
                             FileIO_open(disk[editor'.filename].content).buffer
      ]_vars

\* `e` was refused on a session with unsaved changes.
C5_Witness ==
    /\ loop = "running"
    /\ last = "edit_blocked"
    /\ editor.dirty
    /\ status_message = "NoWrite"

\* C6: `w` stays in the loop in Normal mode and clears dirty when the save
\* succeeded; `wq` leaves the loop exactly when the save succeeded; when the
\* save of `wq` fails the loop keeps running, dirty keeps its value and the
\* mode is Normal.
C6_WriteAndWriteQuit ==
    [][/\ CommandEnterW =>
              /\ loop' = "running"
              /\ mode_manager'.current = "Normal"
              /\ last' \in {"save_ok", "save_err"}
              /\ last' = "save_ok" =>
                     /\ ~editor'.dirty
                     /\ disk'[editor.filename] =
                            File(FileIO_save(editor.buffer,
                                             editor.ends_with_newline))
       /\ CommandEnterWq =>
              /\ last' \in {"save_ok", "save_err"}
              /\ loop' = "exited" <=> last' = "save_ok"
              /\ last' = "save_ok" =>
                     disk'[editor.filename] =
                         File(FileIO_save(editor.buffer,
                                          editor.ends_with_newline))
              /\ last' = "save_err" =>
                     /\ loop' = "running"
                     /\ editor'.dirty = editor.dirty
                     /\ mode_manager'.current = "Normal"
      ]_vars

\* `wq` has saved a modified session and left the loop.
C6_Witness ==
    /\ loop = "exited"
    /\ last = "save_ok"
    /\ cleared
    /\ ~editor.dirty
    /\ disk[editor.filename] # NoFile

\* C7: saving what open returned writes back exactly the content of the
\* file, for every content.
C7_RoundTrip ==
    (probe.kind = "fileio" /\ probe.stage = 2) =>
        probe.saved = probe.content

\* C8: open maps a content that ends in '\n' and has N newline-delimited
\* lines to N rows and flag true; a non-empty content without a final '\n'
\* to flag false and the rows of the same content with a final '\n'; the
\* empty content to no rows and flag false; "\n" to one empty row and flag
\* true.
C8_OpenMapping ==
    (probe.kind = "fileio" /\ probe.stage >= 1) =>
        LET content == probe.content
            opened == probe.opened
        IN  /\ content = <<>> =>
                   opened = [buffer |-> <<>>, ends_with_newline |-> FALSE]
            /\ content = <<"LF">> =>
                   opened = [buffer |-> << <<>> >>, ends_with_newline |-> TRUE]
            /\ EndsWithNewline(content) =>
                   /\ opened.ends_with_newline
                   /\ Len(opened.buffer) =
                          Cardinality({i \in DOMAIN content : content[i] = "LF"})
            /\ (content # <<>> /\ ~EndsWithNewline(content)) =>
                   /\ ~opened.ends_with_newline
                   /\ opened.buffer = FileIO_open(content \o <<"LF">>).buffer

\* C9: the trailing-newline flag of the session is the one observed when
\* the current file was loaded, at startup, by open_file or by reload: the
\* session starts with the flag of the file named on the command line, a
\* successful open_file or reload sets it to the flag of the file read, and
\* no other key event changes it.
C9_FlagAsLoaded ==
    /\ editor.filename # None =>
           editor.ends_with_newline =
               EndsWithNewline(disk[editor.filename].content)
    /\ [][IF last' \in {"open_ok", "reload_ok"}
          THEN editor'.ends_with_newline =
                   EndsWithNewline(disk'[editor'.filename].content)
          ELSE editor'.ends_with_newline = editor.ends_with_newline]_vars

\* C10: on a selection inside one row, yank_range and delete_range put the
\* inclusive substring [min col, max col] of the row into the register as
\* one InLine fragment; yank_range leaves the buffer alone and delete_range
\* leaves the row without exactly that substring.
C10_SingleRowRange ==
    ( /\ probe.kind = "range"
      /\ probe.op \in {"yank_range", "delete_range"} /\ probe.paste = "none"
      /\ probe.start.row = probe.end.row
      /\ probe.start.row < Len(probe.before.buffer)
      /\ probe.start.col < Len(probe.before.buffer[probe.start.row + 1])
      /\ probe.end.col < Len(probe.before.buffer[probe.start.row + 1]) ) =>
        LET row == probe.before.buffer[probe.start.row + 1]
            lo == Min(probe.start.col, probe.end.col)
            hi == IF probe.start.col > probe.end.col THEN probe.start.col
                                                     ELSE probe.end.col
        IN  /\ probe.ret
            /\ editor.yank_manager =
                   [buffer |-> <<SubSeq(row, lo + 1, hi + 1)>>,
                    yank_type |-> "InLine"]
            /\ probe.op = "yank_range" => editor.buffer = probe.before.buffer
            /\ probe.op = "delete_range" =>
                   /\ ~probe.panic
                   /\ editor.buffer =
                          [probe.before.buffer EXCEPT ![probe.start.row + 1] =
                               SubSeq(row, 1, lo) \o SubSeq(row, hi + 2, Len(row))]


\* C11: extract_range_text on a selection over rows r1 < r2, all inside the
\* buffer, yields one line per selected row, each taken from its own row:
\* row r1 from start.col to its end, interior rows whole, row r2 from
\* column 0 to end.col inclusive.
C11_MultiRowExtraction ==
    LET norm_start == normalize_range(probe.start, probe.end)[1]
        norm_end == normalize_range(probe.start, probe.end)[2]
        k == norm_end.row - norm_start.row + 1
    IN  ( /\ probe.kind = "range" /\ probe.op = "extract_range_text"
          /\ norm_start.row < norm_end.row
          /\ norm_end.row < Len(probe.before.buffer) ) =>
            probe.lines =
                [i \in 1..k |->
                    LET chars == probe.before.buffer[norm_start.row + i] IN
                    IF i = 1 THEN Skip(chars, norm_start.col)
                    ELSE IF i = k THEN Take(chars, norm_end.col + 1)
                    ELSE chars]

\* C12: after a yank_range that extracted k >= 2 lines the register holds
\* all k extracted lines in row order, typed NewLine; after one that
\* extracted exactly one line it holds that fragment typed InLine.
C12_RegisterHoldsAllLines ==
    LET yank_lines == extract_range_text(probe.before, probe.start, probe.end)
    IN  ( /\ probe.kind = "range" /\ probe.op = "yank_range"
          /\ probe.paste = "none"
          /\ probe.start.row < Len(probe.before.buffer)
          /\ probe.end.row < Len(probe.before.buffer) ) =>
            /\ probe.ret
            /\ editor.yank_manager =
                   [buffer |-> yank_lines,
                    yank_type |-> IF Len(yank_lines) = 1 THEN "InLine"
                                                         ELSE "NewLine"]


C14_PasteNewLine ==
    LET old == probe.mid.buffer
        content == probe.mid.yank_manager.buffer
        at == IF probe.paste = "Below" THEN probe.end.row + 1
                                       ELSE probe.end.row
    IN  ( /\ probe.kind = "range" /\ probe.paste # "none"
          /\ content # <<>>
          /\ is_newline_yank(probe.mid.yank_manager)
          /\ \/ probe.end.row < Len(old)
             \/ old = <<>> /\ probe.end.row = 0 ) =>
            /\ ~probe.panic
            /\ probe.paste_ret = probe.paste
            /\ editor.dirty
            /\ Len(editor.buffer) = Len(old) + Len(content)
            /\ editor.buffer = Take(old, at) \o content \o Skip(old, at)


\* C15: paste with an InLine register at a position on an existing row
\* splices the fragment into that row at character column
\* min(pos.col + 1, row length) for Below and min(pos.col, row length) for
\* Above, leaves every other row as it was, sets dirty and returns InLine; so
\* a character deleted at (r, c) by delete_char_at_cursor and pasted Below at
\* (r, c) stands at column c + 1 when the row still reaches that far.
C15_PasteInLine ==
    LET old == probe.mid.buffer
        fragment == probe.mid.yank_manager.buffer[1]
        r == old[probe.end.row + 1]
        col == Min(IF probe.paste = "Below" THEN probe.end.col + 1
                                            ELSE probe.end.col, Len(r))
    IN  ( /\ probe.kind = "range" /\ probe.paste # "none"
          /\ probe.mid.yank_manager.buffer # <<>>
          /\ ~is_newline_yank(probe.mid.yank_manager)
          /\ probe.end.row < Len(old) ) =>
            /\ ~probe.panic
            /\ probe.paste_ret = "InLine"
            /\ editor.dirty
            /\ editor.buffer =
                   [old EXCEPT ![probe.end.row + 1] =
                        Take(r, col) \o fragment \o Skip(r, col)]
            /\ ( /\ probe.op = "delete_char_at_cursor"
                 /\ probe.start = probe.end /\ probe.paste = "Below"
                 /\ probe.end.col + 1 <= Len(r) ) =>
                   editor.buffer[probe.end.row + 1][probe.end.col + 2]
                       = probe.before.buffer[probe.end.row + 1][probe.end.col + 1]


\* C16: delete_line(row) with row inside the buffer removes exactly that row
\* (the rows after it move up by one), makes the register the single removed
\* line typed NewLine, sets dirty and returns true; with row outside the
\* buffer it returns false and leaves buffer, register and dirty as they
\* were.
C16_DeleteLine ==
    LET old == probe.before
        row == probe.start.row
    IN  (probe.kind = "range" /\ probe.op = "delete_line"
         /\ probe.paste = "none") =>
            IF row < Len(old.buffer)
            THEN /\ probe.ret
                 /\ editor.buffer = SubSeq(old.buffer, 1, row)
                                    \o SubSeq(old.buffer, row + 2, Len(old.buffer))
                 /\ editor.yank_manager = [buffer |-> <<old.buffer[row + 1]>>,
                                           yank_type |-> "NewLine"]
                 /\ editor.dirty
            ELSE /\ ~probe.ret
                 /\ editor = old

\* The first of two rows of a clean buffer is deleted while the register
\* holds an earlier line.
C16_Witness ==
    /\ probe.kind = "range" /\ probe.op = "delete_line" /\ probe.paste = "none"
    /\ probe.before.buffer = <<<<"a", "W">>, <<"b">>>>
    /\ ~probe.before.dirty
    /\ probe.before.yank_manager.buffer = <<<<"b">>>>
    /\ probe.start.row = 0
    /\ editor.buffer = <<<<"b">>>>
    /\ editor.yank_manager.buffer = <<<<"a", "W">>>>


\* C17: delete_char_at_cursor(pos) deletes only if row pos.row exists and
\* pos.col is a character of it: then the row loses exactly that character,
\* the register becomes that character typed InLine, dirty is true and the
\* result is true; otherwise the result is false and buffer, register and
\* dirty are as they were.
C17_DeleteCharAtCursor ==
    LET old == probe.before
        pos == probe.start
    IN  (probe.kind = "range" /\ probe.op = "delete_char_at_cursor"
         /\ probe.paste = "none") =>
            IF pos.row < Len(old.buffer) /\ pos.col < Len(old.buffer[pos.row + 1])
            THEN LET r == old.buffer[pos.row + 1] IN
                 /\ probe.ret /\ ~probe.panic
                 /\ editor.buffer = [old.buffer EXCEPT ![pos.row + 1] =
                                        Take(r, pos.col) \o Skip(r, pos.col + 1)]
                 /\ editor.yank_manager = [buffer |-> <<<<r[pos.col + 1]>>>>,
                                           yank_type |-> "InLine"]
                 /\ editor.dirty
            ELSE /\ ~probe.ret /\ ~probe.panic
                 /\ editor = old


\* C18: yank_line(row) and yank_range(start, end) change neither the rows of
\* the buffer nor the dirty flag, whatever they return: only the register
\* may differ from the state before.
C18_YankLeavesBufferAndDirty ==
    ( /\ probe.kind = "range" /\ probe.op \in {"yank_line", "yank_range"}
      /\ probe.paste = "none" ) =>
        /\ editor.buffer = probe.before.buffer
        /\ editor.dirty = probe.before.dirty
        /\ [editor EXCEPT !.yank_manager = probe.before.yank_manager]
               = probe.before

\* A line of a clean buffer has been yanked over an earlier register content.
C18_Witness ==
    /\ probe.kind = "range" /\ probe.op = "yank_line" /\ probe.paste = "none"
    /\ probe.ret
    /\ ~probe.before.dirty
    /\ probe.before.buffer = <<<<"a">>, <<"W", "a">>>>
    /\ probe.start.row = 1
    /\ probe.before.yank_manager.buffer = <<<<"b">>>>
    /\ editor.yank_manager = [buffer |-> <<<<"W", "a">>>>, yank_type |-> "NewLine"]


\* C19: a key event whose open_file or reload returned Ok leaves the buffer
\* and the trailing-newline flag equal to what FileIO::open yields for the
\* file, dirty false, and the yank register (content and type) as it was
\* before the event.
C19_LoadKeepsRegister ==
    [][last' \in {"open_ok", "reload_ok"} =>
          LET loaded == FileIO_open(disk[editor'.filename].content) IN
          /\ editor'.buffer = loaded.buffer
          /\ editor'.ends_with_newline = loaded.ends_with_newline
          /\ ~editor'.dirty
          /\ editor'.yank_manager = editor.yank_manager
      ]_vars

\* A file has been opened with `:e <name>` while the register held a yank.
C19_Witness ==
    /\ loop = "running"
    /\ last = "open_ok"
    /\ status_message = "Loaded"
    /\ editor.yank_manager.buffer # <<>>
    /\ ~editor.dirty

\* C20: a key event whose open_file, reload or save returned an error (the
\* I/O failed, or there is no file name for save or reload) leaves buffer,
\* filename, dirty, trailing-newline flag and yank register as they were,
\* and the input loop keeps running.
C20_FailedPersistenceKeepsState ==
    [][last' \in {"open_err", "reload_err", "save_err"} =>
          /\ editor' = editor
          /\ loop' = "running"
      ]_vars

\* A reload of a modified, non-empty buffer has failed (`:e!` with an I/O
\* error): the modification is still there.
C20_Witness ==
    /\ loop = "running"
    /\ last = "reload_err"
    /\ editor.dirty
    /\ editor.filename # None
    /\ editor.buffer # <<>>


\* C21: the mode starts as Normal, and no key event changes it from Insert
\* to Command or Visual, from Command or Visual to Insert, or between
\* Command and Visual: every change of mode has Normal as its source or as
\* its target.
C21_ModeChangesThroughNormal ==
    /\ mode_manager.current = "Normal"
    /\ [][mode_manager'.current # mode_manager.current =>
              \/ mode_manager.current = "Normal"
              \/ mode_manager'.current = "Normal"]_vars

\* Insert mode has been entered, text typed, and Normal mode entered again.
C21_Witness ==
    /\ loop = "running"
    /\ mode_manager.current = "Normal"
    /\ editor.dirty
    /\ editor.yank_manager.buffer = <<>>
    /\ Len(editor.buffer) = 1 /\ editor.filename = None

\* C22: Esc in Insert, Command or Visual mode results in Normal mode; Enter
\* in Command mode, whatever the command text, results in the loop having
\* exited or in Normal mode with an empty command buffer.
C22_EscAndEnterLeadToNormal ==
    [][/\ (InsertEsc \/ CommandEsc \/ VisualEsc) =>
              mode_manager'.current = "Normal"
       /\ ( \/ CommandEnterQ \/ CommandEnterQBang \/ CommandEnterW
            \/ CommandEnterWq \/ CommandEnterEditName \/ CommandEnterReload
            \/ CommandEnterEmpty \/ CommandEnterUnknown ) =>
              \/ loop' = "exited"
              \/ /\ loop' = "running"
                 /\ mode_manager'.current = "Normal"
                 /\ command_buffer' = <<>>
      ]_vars

\* An unknown command has been completed with Enter.
C22_Witness ==
    /\ loop = "running"
    /\ status_message = "NotCommand"
    /\ mode_manager.current = "Normal"
    /\ command_buffer = <<>>

\* C23: `v` stores the cursor position of that moment as the anchor, and
\* after every key event the anchor is present exactly when the mode is
\* Visual.
C23_AnchorIffVisual ==
    /\ []((mode_manager.visual_start # NoValue)
              <=> (mode_manager.current = "Visual"))
    /\ [][NormalV => /\ mode_manager'.current = "Visual"
                     /\ mode_manager'.visual_start = Some(position(cursor))
         ]_vars

\* Visual mode was entered on the second row and the cursor has moved up
\* since: the anchor is still the position where `v` was pressed.
C23_Witness ==
    /\ loop = "running"
    /\ mode_manager.current = "Visual"
    /\ mode_manager.visual_start = Some([row |-> 1, col |-> 0])
    /\ position(cursor).row = 0


\* C24: ensure_within_bounds(buffer_len, line_len, editor_rows) yields
\* x = 1, y = 1, row_offset = 0 for buffer_len = 0 from every cursor; for
\* buffer_len >= 1 it yields a cursor whose file row is below buffer_len
\* (the last row if the cursor was beyond it, else the row it was on, with y
\* and row_offset untouched) and whose x is at most max(1, line_len).
C24_EnsureWithinBounds ==
    (probe.kind = "scroll" /\ probe.op = "ensure_within_bounds") =>
        IF probe.buffer_len = 0
        THEN probe.c1 = [x |-> 1, y |-> 1, row_offset |-> 0]
        ELSE /\ file_row(probe.c1) < probe.buffer_len
             /\ IF file_row(probe.c0) >= probe.buffer_len
                THEN file_row(probe.c1) = probe.buffer_len - 1
                ELSE /\ probe.c1.y = probe.c0.y
                     /\ probe.c1.row_offset = probe.c0.row_offset
             /\ probe.c1.x <= (IF probe.line_len > 1 THEN probe.line_len ELSE 1)

\* A cursor beyond the end of a buffer longer than the viewport, with x
\* beyond the line, has been brought back to the last row and the last column.
C24_Witness ==
    /\ probe.kind = "scroll" /\ probe.op = "ensure_within_bounds"
    /\ probe.buffer_len = 3 /\ probe.rows = 2
    /\ file_row(probe.c0) = 5
    /\ probe.c0.x = 4 /\ probe.line_len = 2
    /\ probe.c1 = [x |-> 2, y |-> 2, row_offset |-> 1]

\* C25: move_left never makes x < 1; move_right(line_len) never makes
\* x > max(1, line_len) when x was within that bound; move_up never moves
\* the file row below 0; move_down(max_rows, buffer_len) never moves the
\* cursor to a file row past buffer_len - 1 and does nothing on an empty
\* buffer; each call changes either the file row or x, by at most one.
C25_MovesStayInBounds ==
    LET c0 == probe.c0
        c1 == probe.c1
        bound == IF probe.line_len > 1 THEN probe.line_len ELSE 1
        dx == IF c1.x > c0.x THEN c1.x - c0.x ELSE c0.x - c1.x
        drow == IF file_row(c1) > file_row(c0)
                THEN file_row(c1) - file_row(c0)
                ELSE file_row(c0) - file_row(c1)
    IN  ( /\ probe.kind = "scroll"
          /\ probe.op \in {"move_left", "move_right", "move_up", "move_down"} )
        =>
            /\ dx + drow <= 1
            /\ probe.op = "move_left" => c1.x >= 1 /\ drow = 0
            /\ probe.op = "move_right" =>
                   /\ c0.x <= bound => c1.x <= bound
                   /\ drow = 0
            /\ probe.op = "move_up" =>
                   /\ file_row(c1) >= 0 /\ c1.y >= 1 /\ c1.row_offset >= 0
                   /\ dx = 0
            /\ probe.op = "move_down" =>
                   /\ probe.buffer_len = 0 => c1 = c0
                   /\ c1 # c0 => file_row(c1) <= probe.buffer_len - 1
                   /\ dx = 0

\* move_down at the bottom line of the viewport, on the row before the last
\* row of the buffer: the view scrolls by one and the cursor is on the last
\* row.
C25_Witness ==
    /\ probe.kind = "scroll" /\ probe.op = "move_down"
    /\ probe.rows = 2 /\ probe.c0.y = 2
    /\ file_row(probe.c0) = probe.buffer_len - 2
    /\ probe.c1.row_offset = probe.c0.row_offset + 1
    /\ file_row(probe.c1) = probe.buffer_len - 1

\* C26: move_to_bottom(buffer_len, editor_rows) with buffer_len >= 1 and
\* editor_rows >= 1 puts the cursor on the last row, file row
\* buffer_len - 1, with 1 <= y <= editor_rows; row_offset is 0 when all rows
\* fit in the viewport and last_row - (editor_rows - 1) otherwise;
\* move_to_top yields y = 1 and row_offset = 0.
C26_MoveToBottomAndTop ==
    /\ (probe.kind = "scroll" /\ probe.op = "move_to_top") =>
           probe.c1.y = 1 /\ probe.c1.row_offset = 0
    /\ ( /\ probe.kind = "scroll" /\ probe.op = "move_to_bottom"
         /\ probe.buffer_len >= 1 /\ probe.rows >= 1 ) =>
           LET last_row == probe.buffer_len - 1 IN
           /\ file_row(probe.c1) = last_row
           /\ 1 <= probe.c1.y /\ probe.c1.y <= probe.rows
           /\ probe.c1.row_offset =
                  IF probe.buffer_len <= probe.rows THEN 0
                  ELSE last_row - (probe.rows - 1)

\* C27: for every position (row, col) with row < buffer length and
\* col <= length of that row, insert_char(pos, ch) followed by
\* delete_char(pos) returns Some(ch) and leaves the buffer content exactly
\* as it was before the insert.
C27_InsertDeleteRoundTrip ==
    (/\ probe.kind = "range" /\ probe.op = "insert_char;delete_char"
     /\ probe.start.row < Len(probe.before.buffer)
     /\ probe.start.col <= Len(probe.before.buffer[probe.start.row + 1]))
    => /\ ~probe.panic
       /\ probe.out = probe.ch
       /\ editor.buffer = probe.before.buffer

\* C28: out-of-range buffer requests are silent no-ops that leave the buffer
\* unchanged and raise no error: insert_row with at > len, delete_row and
\* delete_row_with_content with at >= len (the latter returning None),
\* delete_char with a missing row or col >= row length (returning None), and
\* join_rows with at = 0 or at >= len.
C28_OutOfRangeRequests ==
    LET rows == probe.before.buffer
        at == probe.start.row
        col == probe.start.col
        out_of_range ==
            \/ probe.op = "insert_row" /\ at > Len(rows)
            \/ probe.op \in {"delete_row", "delete_row_with_content"}
               /\ at >= Len(rows)
            \/ probe.op = "delete_char"
               /\ (at >= Len(rows) \/ col >= Len(rows[at + 1]))
            \/ probe.op = "join_rows" /\ (at = 0 \/ at >= Len(rows))
    IN  (probe.kind = "range" /\ out_of_range)
        => /\ ~probe.panic
           /\ editor.buffer = rows
           /\ probe.op = "delete_row_with_content" => probe.out = NoValue
           /\ probe.op = "delete_char" => probe.out = None

\* C29: insert_newline(pos) with pos.row < len and pos.col <= row length
\* replaces row pos.row by two adjacent rows, the first holding [0, col) and
\* the second holding [col, end) of the original row; the buffer length
\* grows by exactly one and all other rows are unchanged; with
\* pos.row >= len it appends exactly one empty row and changes nothing else.
C29_InsertNewlineSplits ==
    LET rows == probe.before.buffer
        row == probe.start.row
        col == probe.start.col
    IN  (probe.kind = "range" /\ probe.op = "insert_newline") =>
            IF row >= Len(rows)
            THEN ~probe.panic /\ editor.buffer = rows \o <<<<>>>>
            ELSE col <= Len(rows[row + 1]) =>
                    /\ ~probe.panic
                    /\ editor.buffer =
                           SubSeq(rows, 1, row)
                           \o <<Take(rows[row + 1], col), Skip(rows[row + 1], col)>>
                           \o SubSeq(rows, row + 2, Len(rows))

\* C30: clipboard outcomes never influence the editing core: for every
\* sequence of edit operations, the resulting buffer, register, dirty flag
\* and every operation's return value are identical whether the clipboard is
\* absent, every set_text call fails, or every set_text call succeeds.
C30_ClipboardNeverInfluencesCore ==
    probe.kind = "clipboard" =>
        \A g \in DOMAIN probe.runs, h \in DOMAIN probe.runs :
            /\ probe.runs[g].e.buffer = probe.runs[h].e.buffer
            /\ probe.runs[g].e.yank_manager = probe.runs[h].e.yank_manager
            /\ probe.runs[g].e.dirty = probe.runs[h].e.dirty
            /\ probe.runs[g].rets = probe.runs[h].rets
            /\ probe.runs[g].panic = probe.runs[h].panic

\* Two operations have run, the second a yank_line that stored the line "a":
\* the working clipboard received it, the failing and the absent one hold
\* nothing, and the first operation had modified the buffer.
C30_Witness ==
    /\ probe.kind = "clipboard" /\ probe.steps = MaxEdits
    /\ probe.last_op = "yank_line"
    /\ probe.runs["succeeds"].clipboard.text = Some(<<"a">>)
    /\ probe.runs["fails"].clipboard.text = NoValue
    /\ probe.runs["absent"].clipboard.text = NoValue
    /\ probe.runs["fails"].e.dirty
    /\ probe.runs["fails"].rets = <<TRUE, TRUE>>
    /\ probe.runs["fails"].e.yank_manager = yank_line(YankManagerNew, <<"a">>)

\* C31: the input loop stops only on an explicit quit command: the loop
\* exits only when `q` is entered with dirty false, `q!` is entered, or `wq`
\* is entered and the save succeeds; no other key event, edit operation or
\* failed file operation ends or aborts the loop.
C31_LoopStopsOnlyOnQuit ==
    [][loop' # loop =>
          /\ loop' = "exited"
          /\ \/ CommandEnterQ /\ ~editor.dirty
             \/ CommandEnterQBang
             \/ CommandEnterWq /\ last' = "save_ok"]_vars

\* C32: column indices denote character positions, also for rows that
\* contain multi-byte characters: insert_char, delete_char and insert_newline
\* address the col-th character of the row, the row length (Row::len) is the
\* number of characters, and none of these operations aborts.
C32_ColumnsAreCharacters ==
    LET rows == probe.before.buffer
        row == probe.start.row
        col == probe.start.col
        r == rows[row + 1]
    IN  (/\ probe.kind = "range" /\ row < Len(rows)
         /\ probe.op \in {"insert_char;delete_char", "delete_char",
                          "insert_newline"}) =>
            /\ RowLen(r) = Len(r)
            /\ (probe.op = "insert_char;delete_char" /\ col <= Len(r)) =>
                   probe.mid.buffer =
                       [rows EXCEPT ![row + 1] =
                            Take(r, col) \o <<probe.ch>> \o Skip(r, col)]
            /\ (probe.op = "delete_char" /\ col < Len(r)) =>
                   /\ ~probe.panic
                   /\ probe.out = r[col + 1]
                   /\ editor.buffer =
                          [rows EXCEPT ![row + 1] =
                               Take(r, col) \o Skip(r, col + 1)]
            /\ (probe.op = "insert_newline" /\ col <= Len(r)) =>
                   /\ ~probe.panic
                   /\ editor.buffer[row + 1] = Take(r, col)
                   /\ editor.buffer[row + 2] = Skip(r, col)

\* C33: the ModeManager transition commands are total: from every state
\* (Normal, Insert, Command, Visual), enter_normal, enter_insert,
\* enter_command and enter_visual(pos) each succeed and leave current() equal
\* to the requested mode, and exactly one of is_normal / is_insert /
\* is_command / is_visual is true in every state.
C33_ModeCommandsAreTotal ==
    probe.kind = "mode" =>
        LET m == probe.after
            ExactlyOne(a, b, c, d) ==
                Cardinality({i \in 1..4 : <<a, b, c, d>>[i]}) = 1
        IN  /\ probe.op = "enter_normal" => m.current = "Normal" /\ is_normal(m)
            /\ probe.op = "enter_insert" => m.current = "Insert" /\ is_insert(m)
            /\ probe.op = "enter_command" =>
                   m.current = "Command" /\ is_command(m)
            /\ probe.op = "enter_visual" => m.current = "Visual" /\ is_visual(m)
            /\ ExactlyOne(is_normal(m), is_insert(m), is_command(m),
                          is_visual(m))
            /\ ExactlyOne(is_normal(probe.before), is_insert(probe.before),
                          is_command(probe.before), is_visual(probe.before))

\* enter_insert has been applied to a manager in Visual mode with an anchor.
C33_Witness ==
    /\ probe.kind = "mode" /\ probe.op = "enter_insert"
    /\ probe.before.current = "Visual"
    /\ probe.before.visual_start = Some([row |-> 1, col |-> 2])
    /\ probe.after.current = "Insert"

\* C34: after every key event that leaves the editor in Normal mode with a
\* non-empty buffer, the cursor does not dangle past the end of its line:
\* x <= max(1, length of the row at the cursor's file row), the length
\* being Row::len, the measure that adjust_cursor_x is given.
C34_CursorWithinLine ==
    (/\ loop = "running" /\ mode_manager.current = "Normal"
     /\ editor.buffer # <<>>)
    => /\ file_row(cursor) < Len(editor.buffer)
       /\ LET len == RowLen(editor.buffer[file_row(cursor) + 1])
          IN  cursor.x <= IF len > 1 THEN len ELSE 1

\* C35: the dirty flag tracks every modification made through the input
\* loop: if the buffer content differs from the content at the last
\* successful load or save (or from the initial content), dirty is true.
\* Stated on the steps: a key event that changes the buffer, other than a
\* successful load, leaves dirty true; this covers `o` and `O`.
C35_DirtyTracksModifications ==
    [][(/\ editor'.buffer # editor.buffer
        /\ last' \notin {"open_ok", "reload_ok"})
       => editor'.dirty]_vars

\* C36: in Normal mode the key sequence `d` `d` followed by `p` never loses
\* text: after the three keys the buffer contains the same multiset of lines
\* as before the `dd`, also when the buffer had a single row.  After a `dd`
\* that deleted a line, that line is in the register and the buffer holds
\* the others, so the `p` that follows must add exactly the register's line
\* to the multiset of rows.
C36_DdThenPKeepsText ==
    [][(NormalP /\ last = "delete_line") =>
          LET line == editor.yank_manager.buffer[1]
              Count(rows, l) == Cardinality({i \in 1..Len(rows) : rows[i] = l})
          IN  /\ loop' = "running"
              /\ Len(editor'.buffer) = Len(editor.buffer) + 1
              /\ \A i \in 1..Len(editor'.buffer) :
                     Count(editor'.buffer, editor'.buffer[i])
                         = Count(editor.buffer, editor'.buffer[i])
                           + (IF editor'.buffer[i] = line THEN 1 ELSE 0)]_vars

\* C37: insert_char(pos, ch) changes the buffer only by inserting exactly
\* that one character: for every pos (including pos.row > len, and
\* pos.row = len with pos.col > 0), either the character ch has been inserted
\* at pos and the total number of characters grew by one, or the buffer (its
\* row count and all rows) is exactly as before.
C37_InsertCharFrame ==
    LET rows == probe.before.buffer
        after == probe.mid.buffer
        row == probe.start.row
        col == probe.start.col
        Padded == IF row < Len(rows) THEN rows ELSE rows \o <<<<>>>>
    IN  (probe.kind = "range" /\ probe.op = "insert_char;delete_char") =>
            \/ after = rows
            \/ /\ row < Len(Padded) /\ col <= Len(Padded[row + 1])
               /\ after = [Padded EXCEPT ![row + 1] =
                              Take(@, col) \o <<probe.ch>> \o Skip(@, col)]

\* C38: join_rows undoes insert_newline: for every buffer and every position
\* (row, col) with row < len and col <= length of that row,
\* insert_newline(row, col) followed by join_rows(row + 1) restores the
\* buffer to exactly its previous rows.
C38_JoinUndoesNewline ==
    LET rows == probe.before.buffer
        row == probe.start.row
        col == probe.start.col
    IN  (/\ probe.kind = "range"
         /\ probe.op \in {"insert_newline", "insert_newline;join_rows"}
         /\ row < Len(rows) /\ col <= Len(rows[row + 1]))
        => /\ ~probe.panic
           /\ probe.op = "insert_newline;join_rows" => editor.buffer = rows

\* C39: scroll never moves the cursor to a different line when the line
\* exists: for every cursor state with file row <= buffer_len - 1 and
\* editor_rows >= 1, scroll(editor_rows, buffer_len) leaves the file row
\* (row_offset + y - 1) unchanged and only redistributes it between y and
\* row_offset; x is unchanged by scroll in every case.
C39_ScrollKeepsLine ==
    (probe.kind = "scroll" /\ probe.op = "none" /\ probe.stage >= 1) =>
        /\ probe.c1.x = probe.c0.x
        /\ (probe.buffer_len >= 1 /\ file_row(probe.c0) <= probe.buffer_len - 1)
           => file_row(probe.c1) = file_row(probe.c0)

\* C40: saving and re-opening reproduces the session's buffer: for every
\* buffer B whose rows hold no newline characters (including the empty
\* buffer and a buffer whose only or last row is empty) and every
\* trailing-newline flag f, open(save(B, f)) returns the same rows as B and
\* the same flag f.
C40_SaveThenOpen ==
    (probe.kind = "saveopen" /\ probe.stage = 2) =>
        /\ probe.opened.buffer = probe.buffer
        /\ probe.opened.ends_with_newline = probe.ends_with_newline

====
